---- MODULE Spec2Model ----
(***************************************************************************)
(* three-player-controller: the finite-state-machine engine (fsm.ts), the  *)
(* locomotion state machine bound to the controller (PlayerCtrlFSM) and    *)
(* the input queries its guards read (PlayerCtrlInput).                    *)
(*                                                                         *)
(* Two specifications share the FSM engine's operators:                    *)
(*   Spec      the engine driven by arbitrary registrations and updates;   *)
(*   SpecLoco  the controller's FSM as PlayerCtrlFSM.init builds it,       *)
(*             driven by device events, the task queue and update ticks.   *)
(***************************************************************************)
EXTENDS Integers, Sequences, FiniteSets, TLC

\* ------------------------------------------------------------------ bounds

\* Registration calls (addState, registerEnterFunc, registerExitFunc,
\* addTransition) made on the engine in one behaviour of Spec.
MaxRegs == 3

\* ------------------------------------------------------- values and inputs

\* currentState before startup (a TypeScript optional field: undefined).
Unset == "undefined"
\* An omitted optional callback argument (undefined).
NoFunc == "nofunc"

\* State names the engine is driven with. They are non-empty strings, as every
\* name of the repository is.
StateNames == {"idle", "walk"}
\* Enter/exit callbacks, by identity.
HookFuncs == {"h1", "h2"}
\* Guard callbacks of Spec, by identity. The input object handed to update is
\* the set of guards that return true for it.
CheckFuncs == {"g1", "g2"}

\* JavaScript truthiness of an optional string: undefined and "" are falsy.
Truthy(s) == s # Unset /\ s # ""

\* ---------------------------------------------------------- the variables

VARIABLES
    states,          \* FiniteStateMachine.states: Set<string>
    currentState,    \* FiniteStateMachine.currentState
    transitions,     \* Map source -> ordered Map target -> guard
    onEnterFuncs,    \* Map state -> enter callback
    onExitFuncs,     \* Map state -> exit callback
    calls,           \* the callbacks invoked by the last call, in order
    evals,           \* the guards evaluated by the last call, in order
    lastOp,          \* the last call: its name, arguments and currentState before it
    registered,      \* per <<source, target>>: the guards addTransition was given, in order
    started,         \* whether startup has been called
    nRegs,           \* registration calls made so far
    trace,           \* the console.log lines of the last call: <<prevState, targetState>>
    onMobile,            \* PlayerCtrlInput.onMobile
    activetKeys,         \* PlayerCtrlInput.activetKeys: Set of key codes
    activeTouches,       \* PlayerCtrlInput.activeTouches: Map identifier -> TouchInfo
    activeToucheTypes,   \* PlayerCtrlInput.activeToucheTypes: Map touch type -> identifier
    fingers,             \* the identifiers of the touches now on the screen
    taskQueue,           \* PlayerController.taskQueue, front first
    isPlayerJumping,     \* PlayerController.isPlayerJumping (the jump latch)
    playerOnFloor,       \* PlayerController.playerOnFloor
    nTouchEvents,        \* touch events delivered so far
    switchModeTimer,     \* PlayerCtrlInput.switchModeTimer: 0 (undefined) or the last timer id stored
    eventRepeatTimer,    \* PlayerCtrlInput.eventRepeatTimer: 0 (undefined) or the last timer id stored
    timers,              \* the browser's pending timeouts: timer id -> what its callback does
    events,              \* the notifications the last handler dispatched on the document
    controlMode,         \* PlayerController.controlMode
    playerActor,         \* PlayerController.playerActor: "undefined", or its visibility
    playerActorLoader,   \* whether PlayerController.playerActorLoader is set
    pendingLoads,        \* the actorSaver callbacks the loader holds: the mode each one sets
    playerCollider,      \* PlayerController.playerCollider: the capsule's start and end
    playerProxy,         \* PlayerController.playerProxy: position and Euler rotation
    tick,                \* what the last update did with input, velocity and orientation
    impulses,            \* jump impulses applied since the latch was last cleared
    activeMouseKeys,     \* PlayerCtrlInput.activeMouseKeys: Set of button numbers
    mouseMoveVector,     \* PlayerCtrlInput.mouseMoveVector
    mouseHeld,           \* the mouse buttons the user is holding down
    movedSinceQuery,     \* the total of the accepted mouse movements since getRotateVector
    motion               \* playerVelocity and the distance moved, followed in walk and in run

fsmVars == <<states, currentState, transitions, onEnterFuncs, onExitFuncs>>
obsVars == <<calls, evals, trace, lastOp, registered, started>>
cntVars == <<nRegs>>
touchVars == <<activeTouches, activeToucheTypes, fingers, nTouchEvents,
               switchModeTimer, eventRepeatTimer, timers>>
mouseVars == <<activeMouseKeys, mouseMoveVector, mouseHeld, movedSinceQuery>>
deviceVars == <<onMobile, activetKeys, touchVars, mouseVars>>
inputVars == <<deviceVars, events>>
modeVars == <<controlMode, playerActor, playerActorLoader, pendingLoads>>
bodyVars == <<playerCollider, playerProxy>>
tickVars == <<tick, impulses>>
ctrlVars == <<taskQueue, isPlayerJumping, playerOnFloor, modeVars, bodyVars, tickVars,
              motion>>
vars == <<fsmVars, obsVars, cntVars, inputVars, ctrlVars>>

\* ------------------------------------------------------------- JS Map

\* An empty Map.
EmptyMap == [k \in {} |-> NoFunc]

\* Map.set on a Map whose order is not observed.
MapSet(m, k, v) == [x \in (DOMAIN m) \cup {k} |-> IF x = k THEN v ELSE m[x]]

\* Map.get on a state -> callback Map, NoFunc when the key is absent.
MapGet(m, k) == IF k \in DOMAIN m THEN m[k] ELSE NoFunc

\* The sequence kept under k, empty when there is none.
MapGetSeq(m, k) == IF k \in DOMAIN m THEN m[k] ELSE << >>

\* The keys of an ordered Map (a sequence of [target, checkFunc] entries).
Targets(entries) == {entries[i].target : i \in 1..Len(entries)}

\* Mutant of OrderedSet: a list push, which keeps the old entry of the key.
OrderedPush(entries, target, checkFunc) ==
    Append(entries, [target |-> target, checkFunc |-> checkFunc])

\* Map.set on an ordered Map: an existing key keeps its place and gets the new
\* value, a new key is appended.
OrderedSet(entries, target, checkFunc) ==
    IF target \in Targets(entries)
    THEN [i \in 1..Len(entries) |->
            IF entries[i].target = target
            THEN [target |-> target, checkFunc |-> checkFunc]
            ELSE entries[i]]
    ELSE Append(entries, [target |-> target, checkFunc |-> checkFunc])

\* ------------------------------------------------- the engine's operations

\* Mutant of addStateHook: the first registration of a state wins.
addStateHookKeepFirst(m, state, func) ==
    IF func # NoFunc /\ state \notin DOMAIN m THEN MapSet(m, state, func) ELSE m

\* addState's effect on a callback Map: set only when the callback is given.
addStateHook(m, state, func) == IF func # NoFunc THEN MapSet(m, state, func) ELSE m

\* addTransition's effect on the transition table.
addTransitionTo(tbl, sourceState, targetState, checkFunc) ==
    LET tbl1 == IF sourceState \notin DOMAIN tbl
                THEN MapSet(tbl, sourceState, << >>)
                ELSE tbl
    IN  MapSet(tbl1, sourceState,
               OrderedSet(tbl1[sourceState], targetState, checkFunc))

\* One invocation of a callback: which Map and key it was found under, the
\* callback, currentState at the moment of the call, and the argument passed.
Call(kind, state, cur, arg) ==
    [kind |-> kind, state |-> state,
     func |-> IF kind = "exit" THEN onExitFuncs[state] ELSE onEnterFuncs[state],
     cur |-> cur, arg |-> arg]

\* Mutant of transition: the state is set before the exit callback runs.
transitionSetFirst(st, targetState) ==
    LET prevState == st.currentState
    IN  IF Truthy(prevState) /\ prevState = targetState
        THEN st
        ELSE LET afterExit ==
                     IF Truthy(prevState) /\ prevState \in DOMAIN onExitFuncs
                     THEN Append(st.calls, Call("exit", prevState, targetState, Unset))
                     ELSE st.calls
                 afterEnter ==
                     IF targetState \in DOMAIN onEnterFuncs
                     THEN Append(afterExit,
                                 Call("enter", targetState, targetState, prevState))
                     ELSE afterExit
             IN  [st EXCEPT !.currentState = targetState, !.calls = afterEnter,
                             !.trace = Append(st.trace, <<prevState, targetState>>)]

\* Mutant of transition: no early return when the target is the current state.
transitionNoSelfCheck(st, targetState) ==
    LET prevState == st.currentState
        afterExit ==
            IF Truthy(prevState) /\ prevState \in DOMAIN onExitFuncs
            THEN Append(st.calls, Call("exit", prevState, prevState, Unset))
            ELSE st.calls
        afterEnter ==
            IF targetState \in DOMAIN onEnterFuncs
            THEN Append(afterExit, Call("enter", targetState, targetState, prevState))
            ELSE afterExit
    IN  [st EXCEPT !.currentState = targetState, !.calls = afterEnter,
                             !.trace = Append(st.trace, <<prevState, targetState>>)]

\* Mutant of transition: a target that addState never registered is refused.
transitionValidated(st, targetState) ==
    LET prevState == st.currentState
    IN  IF targetState \notin states \/ (Truthy(prevState) /\ prevState = targetState)
        THEN st
        ELSE LET afterExit ==
                     IF Truthy(prevState) /\ prevState \in DOMAIN onExitFuncs
                     THEN Append(st.calls, Call("exit", prevState, prevState, Unset))
                     ELSE st.calls
                 afterEnter ==
                     IF targetState \in DOMAIN onEnterFuncs
                     THEN Append(afterExit,
                                 Call("enter", targetState, targetState, prevState))
                     ELSE afterExit
             IN  [st EXCEPT !.currentState = targetState, !.calls = afterEnter,
                             !.trace = Append(st.trace, <<prevState, targetState>>)]

\* transition(targetState), from the run state
\* st = [currentState, calls, evals, trace].
transition(st, targetState) ==
    LET prevState == st.currentState
    IN  IF Truthy(prevState) /\ prevState = targetState
        THEN st
        ELSE LET afterExit ==
                     IF Truthy(prevState) /\ prevState \in DOMAIN onExitFuncs
                     THEN Append(st.calls, Call("exit", prevState, prevState, Unset))
                     ELSE st.calls
                 afterEnter ==
                     IF targetState \in DOMAIN onEnterFuncs
                     THEN Append(afterExit,
                                 Call("enter", targetState, targetState, prevState))
                     ELSE afterExit
             IN  [st EXCEPT !.currentState = targetState, !.calls = afterEnter,
                             !.trace = Append(st.trace, <<prevState, targetState>>)]

\* Mutant of checkFuncHolds: the guard's result is negated.
checkFuncNegated(checkFunc, input) == checkFunc \notin input

\* The guard call checkFunc(deltaTime, input).
checkFuncHolds(checkFunc, input) == checkFunc \in input

\* Mutant of updateLoop: the loop stops at the first guard that returns true.
RECURSIVE updateLoopFirstMatch(_, _, _, _)
updateLoopFirstMatch(entries, i, st, input) ==
    IF i > Len(entries)
    THEN st
    ELSE LET st1 == [st EXCEPT !.evals = Append(st.evals, entries[i].checkFunc)]
         IN  IF checkFuncHolds(entries[i].checkFunc, input)
             THEN transition(st1, entries[i].target)
             ELSE updateLoopFirstMatch(entries, i + 1, st1, input)

\* Mutant of updateLoop: each step reads the entries of the state current at
\* that step instead of the snapshot taken when the call began.
RECURSIVE updateLoopLive(_, _, _, _)
updateLoopLive(entries, i, st, input) ==
    LET live == MapGetSeq(transitions, st.currentState)
    IN  IF i > Len(live)
        THEN st
        ELSE LET st1 == [st EXCEPT !.evals = Append(st.evals, live[i].checkFunc)]
                 st2 == IF checkFuncHolds(live[i].checkFunc, input)
                        THEN transition(st1, live[i].target)
                        ELSE st1
             IN  updateLoopLive(entries, i + 1, st2, input)

\* The loop of update over the entries snapshot taken when the call began.
RECURSIVE updateLoop(_, _, _, _)
updateLoop(entries, i, st, input) ==
    IF i > Len(entries)
    THEN st
    ELSE LET st1 == [st EXCEPT !.evals = Append(st.evals, entries[i].checkFunc)]
             st2 == IF checkFuncHolds(entries[i].checkFunc, input)
                    THEN transition(st1, entries[i].target)
                    ELSE st1
         IN  updateLoop(entries, i + 1, st2, input)

\* Mutant of startup: the initial state is entered through transition.
startupByTransition(initState) ==
    transition([currentState |-> currentState, calls |-> << >>, evals |-> << >>,
     trace |-> << >>],
               initState)

\* startup(initState): the run state it ends in.
startup(initState) ==
    [currentState |-> initState, calls |-> << >>, evals |-> << >>,
     trace |-> << >>]

\* update(deltaTime, input): the run state it ends in.
update(input) ==
    LET st0 == [currentState |-> currentState, calls |-> << >>, evals |-> << >>,
     trace |-> << >>]
    IN  IF Truthy(currentState) /\ currentState \in DOMAIN transitions
        THEN updateLoop(transitions[currentState], 1, st0, input)
        ELSE st0

\* ---------------------------------------------------------------- actions

Op(name, args) == [op |-> name, args |-> args, from |-> currentState]

AddState(state, onEnter, onExit) ==
    /\ nRegs < MaxRegs
    /\ states' = states \cup {state}
    /\ onEnterFuncs' = addStateHook(onEnterFuncs, state, onEnter)
    /\ onExitFuncs' = addStateHook(onExitFuncs, state, onExit)
    /\ lastOp' = Op("addState", <<state, onEnter, onExit>>)
    /\ calls' = << >> /\ evals' = << >> /\ trace' = << >>
    /\ nRegs' = nRegs + 1
    /\ UNCHANGED <<currentState, transitions, registered, started>>
    /\ UNCHANGED <<inputVars, ctrlVars>>

RegisterEnterFunc(state, onEnter) ==
    /\ nRegs < MaxRegs
    /\ onEnterFuncs' = MapSet(onEnterFuncs, state, onEnter)
    /\ lastOp' = Op("registerEnterFunc", <<state, onEnter>>)
    /\ calls' = << >> /\ evals' = << >> /\ trace' = << >>
    /\ nRegs' = nRegs + 1
    /\ UNCHANGED <<states, currentState, transitions, onExitFuncs, registered, started>>
    /\ UNCHANGED <<inputVars, ctrlVars>>

RegisterExitFunc(state, onExit) ==
    /\ nRegs < MaxRegs
    /\ onExitFuncs' = MapSet(onExitFuncs, state, onExit)
    /\ lastOp' = Op("registerExitFunc", <<state, onExit>>)
    /\ calls' = << >> /\ evals' = << >> /\ trace' = << >>
    /\ nRegs' = nRegs + 1
    /\ UNCHANGED <<states, currentState, transitions, onEnterFuncs, registered, started>>
    /\ UNCHANGED <<inputVars, ctrlVars>>

AddTransition(sourceState, targetState, checkFunc) ==
    /\ nRegs < MaxRegs
    /\ transitions' = addTransitionTo(transitions, sourceState, targetState, checkFunc)
    /\ registered' = MapSet(registered, <<sourceState, targetState>>,
                             Append(MapGetSeq(registered, <<sourceState, targetState>>),
                                    checkFunc))
    /\ lastOp' = Op("addTransition", <<sourceState, targetState, checkFunc>>)
    /\ calls' = << >> /\ evals' = << >> /\ trace' = << >>
    /\ nRegs' = nRegs + 1
    /\ UNCHANGED <<states, currentState, onEnterFuncs, onExitFuncs, started>>
    /\ UNCHANGED <<inputVars, ctrlVars>>

Startup(initState) ==
    /\ currentState' = startup(initState).currentState
    /\ calls' = startup(initState).calls
    /\ evals' = << >> /\ trace' = << >>
    /\ lastOp' = Op("startup", <<initState>>)
    /\ started' = TRUE
    /\ UNCHANGED <<states, transitions, onEnterFuncs, onExitFuncs, registered, cntVars>>
    /\ UNCHANGED <<inputVars, ctrlVars>>

Update(input) ==
    LET st == update(input)
    IN  /\ currentState' = st.currentState
        /\ calls' = st.calls
        /\ evals' = st.evals
        /\ trace' = st.trace
        /\ lastOp' = Op("update", <<input>>)
        /\ UNCHANGED <<states, transitions, onEnterFuncs, onExitFuncs, registered, started, cntVars>>
        /\ UNCHANGED <<inputVars, ctrlVars>>

\* ----------------------------------------------------------- specification

\* The engine after construction: nothing registered, not started.
Init ==
    /\ states = {}
    /\ currentState = Unset
    /\ transitions = EmptyMap
    /\ onEnterFuncs = EmptyMap
    /\ onExitFuncs = EmptyMap
    /\ calls = << >>
    /\ evals = << >>
    /\ lastOp = [op |-> "new", args |-> << >>, from |-> Unset]
    /\ trace = << >>
    /\ registered = EmptyMap
    /\ started = FALSE
    /\ nRegs = 0
    /\ onMobile = FALSE
    /\ activetKeys = {}
    /\ activeTouches = EmptyMap
    /\ activeToucheTypes = EmptyMap
    /\ fingers = {}
    /\ nTouchEvents = 0
    /\ switchModeTimer = 0
    /\ eventRepeatTimer = 0
    /\ timers = EmptyMap
    /\ events = << >>
    /\ taskQueue = << >>
    /\ isPlayerJumping = FALSE
    /\ playerOnFloor = FALSE
    /\ controlMode = 0
    /\ playerActor = Unset
    /\ playerActorLoader = FALSE
    /\ pendingLoads = << >>
    /\ playerCollider = << >>
    /\ playerProxy = << >>
    /\ tick = << >>
    /\ impulses = 0
    /\ activeMouseKeys = {}
    /\ mouseMoveVector = <<0, 0>>
    /\ mouseHeld = {}
    /\ movedSinceQuery = <<0, 0>>
    /\ motion = << >>

Next ==
    \/ \E s \in StateNames, e \in HookFuncs \cup {NoFunc}, x \in HookFuncs \cup {NoFunc} :
          AddState(s, e, x)
    \/ \E s \in StateNames, e \in HookFuncs : RegisterEnterFunc(s, e)
    \/ \E s \in StateNames, x \in HookFuncs : RegisterExitFunc(s, x)
    \/ \E s \in StateNames, t \in StateNames, g \in CheckFuncs : AddTransition(s, t, g)
    \/ \E s \in StateNames : Startup(s)
    \/ \E input \in SUBSET CheckFuncs : Update(input)

Spec == Init /\ [][Next]_vars

\* ============================================================ the controller

\* ------------------------------------------------------------------ bounds

\* Keys held down at the same time.
MaxKeys == 2
\* Tasks in the task queue.
MaxTasks == 1
\* Touch events delivered in one behaviour of SpecLoco.
MaxTouchEvents == 2
\* Touch events delivered in one behaviour of SpecTouch.
MaxTouchSteps == 4
\* How far from the spawn point's x the capsule's x gets in SpecBody.
MaxCoord == 2
\* Actor loads the loader has been asked for and has not completed.
MaxLoads == 2
\* The largest component of the mouse movement between two queries.
MaxMoved == 2
\* Calls of updatePlayer a velocity is followed through.
MaxTicks == 3
\* Calls of update a falling capsule's velocity is followed through.
MaxFalls == 2

\* ------------------------------------------------------- values and inputs

\* Key codes the keyboard sends. "Digit2" stands for the digit keys, which the
\* input object does not record.
KeyCodes == {"KeyW", "KeyA", "KeyS", "KeyD", "Space", "ShiftLeft", "ShiftRight",
             "Digit2"}

\* The userData fields needMove and needRun of a task's target hold "true",
\* "false" or "undefined".
\* JavaScript truthiness of such a value.
JsTruthy(v) == v = "true"
\* Tasks the caller queues, by [needMove, needRun] of the target's userData: a
\* run to a place, a walk to a place, and a task that needs no movement.
Tasks == {[needMove |-> "true", needRun |-> "true"],
          [needMove |-> "true", needRun |-> "undefined"],
          [needMove |-> "false", needRun |-> "undefined"]}

\* The viewport of the touch device (portrait): innerWidth x innerHeight.
InnerWidth == 300
InnerHeight == 600
\* PlayerNavSettings.touchErrorRadius.
touchErrorRadius == 20
\* The mouse buttons (MouseEvent.button), and the middle one.
MOUSE_LEFT_KEY == 0
MOUSE_MIDDLE_KEY == 1
MOUSE_RIGHT_KEY == 2
MouseButtons == {MOUSE_LEFT_KEY, MOUSE_MIDDLE_KEY, MOUSE_RIGHT_KEY}
\* PlayerNavSettings.gravity and jumpUpVelocity.
gravity == 60
jumpUpVelocity == 30
\* PlayerNavSettings.lockScreenOnMouseClick and holdMouseKeyToRotate.
lockScreenOnMouseClick == FALSE
holdMouseKeyToRotate == MOUSE_RIGHT_KEY
\* The movements (movementX, movementY) a mousemove event reports, and the
\* page position of a mouseup event.
MouseMovements == {<<1, 0>>, <<0, 1>>, <<-1, 0>>}
MousePoints == {<<150, 300>>}
\* The distance from the pad centre beyond which a NAV touch runs.
RunDistance == 45

\* The settings the controller runs with: the defaults of PlayerNavSettings,
\* except the spawn geometry, whose defaults put the capsule's start, its end
\* and the origin at one point.
bornPos == <<1, 2>>
bornRotationY == 1
viewHeight == 3
playerCapsuleRadius == 1
fallingThreshold == -25
moveAcceleration == 75
jumpAcceleration == 30

\* The control modes.
CTRL_MODE_FPS == 0
CTRL_MODE_CHASE == 1
CTRL_MODE_OB == 2

\* Touch identifiers and the page positions touches are sampled at: the pad
\* centre, the dead zone's edge on the x axis, just beyond the dead zone on both
\* axes, beyond the run distance, and a point outside the nav region.
TouchIds == {1, 2, 3}
TouchPoints == {<<150, 500>>, <<170, 500>>, <<171, 479>>, <<196, 500>>,
                <<150, 300>>}

\* Components of a normalized vector are kept in hundredths.
Unit == 100

\* ------------------------------------------------------------ vector maths

Abs(x) == IF x < 0 THEN -x ELSE x
Sign(x) == IF x < 0 THEN -1 ELSE IF x > 0 THEN 1 ELSE 0
Min(a, b) == IF a < b THEN a ELSE b
Max(a, b) == IF a > b THEN a ELSE b

\* The integer square root, by bisection of lo..hi.
RECURSIVE IsqrtIn(_, _, _)
IsqrtIn(n, lo, hi) ==
    IF lo >= hi THEN lo
    ELSE LET mid == (lo + hi + 1) \div 2
         IN  IF mid * mid <= n THEN IsqrtIn(n, mid, hi) ELSE IsqrtIn(n, lo, mid - 1)
\* The square roots of the squared lengths that occur, computed once.
SqrtTable == [n \in 1..(2 * Unit * Unit) |-> IsqrtIn(n, 0, n)] \o << >>
Isqrt(n) == IF n = 0 THEN 0 ELSE SqrtTable[n]

\* Vector2.normalize: divide by length() || 1, so the zero vector stays zero.
\* The argument has integer components, the result components in hundredths.
normalize(v) ==
    LET l2 == v[1] * v[1] + v[2] * v[2]
    IN  IF l2 = 0 THEN <<0, 0>>
        ELSE <<Sign(v[1]) * Isqrt((Unit * Unit * v[1] * v[1]) \div l2),
               Sign(v[2]) * Isqrt((Unit * Unit * v[2] * v[2]) \div l2)>>

\* Vector2.length of a vector in hundredths, in hundredths.
length(v) == Isqrt(v[1] * v[1] + v[2] * v[2])

\* ------------------------------------------------------ the touch layout

\* evalNavTouchLayout in portrait orientation: the pad centre and the nav size.
windowLimit == Min(InnerHeight, InnerWidth)
navTouchCenter == <<windowLimit \div 2, InnerHeight - windowLimit \div 3>>
navTouchSize == (windowLimit * 2) \div 3

\* detectTouchType.
detectTouchType(pos) ==
    IF /\ pos[1] > Max(0, navTouchCenter[1] - navTouchSize \div 2)
       /\ pos[1] < Min(InnerWidth, navTouchCenter[1] + navTouchSize \div 2)
       /\ pos[2] > Max(0, navTouchCenter[2] - navTouchSize \div 2)
       /\ pos[2] < Min(InnerHeight, navTouchCenter[2] + navTouchSize \div 2)
    THEN "NAV" ELSE "ROTATE"

\* The square of Vector2.distanceTo.
DistanceSq(a, b) == (a[1] - b[1]) * (a[1] - b[1]) + (a[2] - b[2]) * (a[2] - b[2])

\* ----------------------------------------------------- the input queries

\* Whether activeToucheTypes names a touch of the type that activeTouches holds,
\* and that touch.
HasActiveTouch(touchType) ==
    /\ touchType \in DOMAIN activeToucheTypes
    /\ activeToucheTypes[touchType] \in DOMAIN activeTouches
ActiveTouchOf(touchType) == activeTouches[activeToucheTypes[touchType]]

\* The mutation of getNavVector whose dead zone leaves out its edge.
getNavVectorOpenZone ==
    IF onMobile
    THEN IF HasActiveTouch("NAV")
         THEN LET navTouchPos == ActiveTouchOf("NAV")
                  dx == navTouchPos.currPos[1] - navTouchCenter[1]
                  dy == navTouchPos.currPos[2] - navTouchCenter[2]
              IN  normalize(<<IF Abs(dx) < touchErrorRadius THEN 0 ELSE dx,
                              IF Abs(dy) < touchErrorRadius THEN 0 ELSE -dy>>)
         ELSE <<0, 0>>
    ELSE normalize(<<IF "KeyD" \in activetKeys THEN 1
                     ELSE IF "KeyA" \in activetKeys THEN -1 ELSE 0,
                     IF "KeyW" \in activetKeys THEN 1
                     ELSE IF "KeyS" \in activetKeys THEN -1 ELSE 0>>)

\* getNavVector.
getNavVector ==
    IF onMobile
    THEN IF HasActiveTouch("NAV")
         THEN LET navTouchPos == ActiveTouchOf("NAV")
                  dx == navTouchPos.currPos[1] - navTouchCenter[1]
                  dy == navTouchPos.currPos[2] - navTouchCenter[2]
              IN  normalize(<<IF Abs(dx) <= touchErrorRadius THEN 0 ELSE dx,
                              IF Abs(dy) <= touchErrorRadius THEN 0 ELSE -dy>>)
         ELSE <<0, 0>>
    ELSE normalize(<<IF "KeyD" \in activetKeys THEN 1
                     ELSE IF "KeyA" \in activetKeys THEN -1 ELSE 0,
                     IF "KeyW" \in activetKeys THEN 1
                     ELSE IF "KeyS" \in activetKeys THEN -1 ELSE 0>>)

\* getJumpFlag.
getJumpFlag == IF onMobile THEN FALSE ELSE "Space" \in activetKeys

\* getRunFlag.
getRunFlag ==
    IF onMobile
    THEN IF ~HasActiveTouch("NAV") THEN FALSE
         ELSE DistanceSq(ActiveTouchOf("NAV").currPos, navTouchCenter)
                 > RunDistance * RunDistance
    ELSE "ShiftLeft" \in activetKeys \/ "ShiftRight" \in activetKeys

\* --------------------------------------------- the locomotion state machine

\* hasTaskNeedMove and hasTaskNeedRun: the value of the && expression.
hasTaskNeedMove ==
    IF Len(taskQueue) > 0 THEN taskQueue[1].needMove ELSE "false"
hasTaskNeedRun ==
    IF Len(taskQueue) > 0 THEN taskQueue[1].needRun ELSE "false"

\* Mutant of guardWalkIdle: || where the source has &&.
guardWalkIdleOr == length(getNavVector) = 0 \/ ~JsTruthy(hasTaskNeedMove)

\* The mutation of guardRunWalk that also asks for a nav input.
guardRunWalkMoving ==
    ~getRunFlag /\ ~JsTruthy(hasTaskNeedRun) /\ length(getNavVector) > 0

\* The mutation of guardJump that never holds.
guardJumpNever == FALSE

\* The mutation of guardJumpRun that reads the floor contact instead of the
\* latch.
guardJumpRunOnFloor == playerOnFloor

\* The guards PlayerCtrlFSM.init registers, as the update loop reads them
\* (by truthiness).
guardIdleWalk == length(getNavVector) > 0 \/ JsTruthy(hasTaskNeedMove)
guardWalkIdle == length(getNavVector) = 0 /\ ~JsTruthy(hasTaskNeedMove)
guardWalkRun == getRunFlag \/ JsTruthy(hasTaskNeedRun)
guardRunWalk == ~getRunFlag /\ ~JsTruthy(hasTaskNeedRun)
guardJump == getJumpFlag
guardJumpRun == ~isPlayerJumping

\* The calls of PlayerCtrlFSM.init, in order.
LocoStates == <<"idle", "walk", "run", "jump">>
LocoTransitions ==
    << <<"idle", "walk", "idle_walk">>, <<"walk", "idle", "walk_idle">>,
       <<"walk", "run", "walk_run">>,   <<"run", "walk", "run_walk">>,
       <<"idle", "jump", "idle_jump">>, <<"walk", "jump", "walk_jump">>,
       <<"run", "jump", "run_jump">>,   <<"jump", "run", "jump_run">> >>

\* The guard registered under each name.
LocoGuardHolds(g) ==
    CASE g = "idle_walk" -> guardIdleWalk
      [] g = "walk_idle" -> guardWalkIdle
      [] g = "walk_run" -> guardWalkRun
      [] g = "run_walk" -> guardRunWalk
      [] g \in {"idle_jump", "walk_jump", "run_jump"} -> guardJump
      [] g = "jump_run" -> guardJumpRun

\* The input object as update sees it: the guards true for it now.
LocoInput == {g \in {LocoTransitions[k][3] : k \in 1..Len(LocoTransitions)} :
                LocoGuardHolds(g)}

\* The transition table after the first k addTransition calls of init.
RECURSIVE initTransitions(_)
initTransitions(k) ==
    IF k = 0 THEN EmptyMap
    ELSE addTransitionTo(initTransitions(k - 1), LocoTransitions[k][1],
                         LocoTransitions[k][2], LocoTransitions[k][3])

\* ------------------------------------------------------ the touch table

\* Map.delete.
MapDelete(m, k) == [x \in (DOMAIN m) \ {k} |-> m[x]]

\* The fields of the input object the touch handlers work on and the
\* browser's pending timeouts, with the notifications dispatched so far in the
\* running handler.
TouchState ==
    [touches |-> activeTouches, types |-> activeToucheTypes,
     switchModeTimer |-> switchModeTimer, eventRepeatTimer |-> eventRepeatTimer,
     timers |-> timers, events |-> << >>]

\* The id setTimeout returns when the field it is stored in is overwritten:
\* one that names no pending timeout and that the other field, held, does not
\* hold. (The browser never hands out an id twice; ids are only compared with
\* each other, so the least free one stands for a fresh one.)
NewTimerId(inp, held) ==
    LET used == DOMAIN inp.timers \cup {held}
    IN  CHOOSE n \in 1..(Cardinality(used) + 1) :
            n \notin used /\ \A m \in 1..(n - 1) : m \in used

\* clearTimeout(id): a pending timeout of that id is cancelled; any other id
\* (an expired one, or 0 for undefined) cancels nothing.
clearTimeout(inp, id) == [inp EXCEPT !.timers = MapDelete(@, id)]

\* The mutation of sendTouchEvent that arms without cancelling.
sendTouchEventNoClear(inp, eventType, touchPos) ==
    LET id == NewTimerId(inp, inp.switchModeTimer)
    IN  [inp EXCEPT
           !.timers = MapSet(@, id, [kind |-> "repeat", eventType |-> eventType,
                                     detail |-> touchPos, touch |-> 0]),
           !.eventRepeatTimer = id,
           !.events = Append(@, [type |-> eventType, detail |-> touchPos])]

\* The mutation of sendTouchEvent whose timeout, when one was pending, keeps
\* the pending one's notification.
sendTouchEventStale(inp, eventType, touchPos) ==
    LET pending == inp.eventRepeatTimer \in DOMAIN inp.timers
        cleared == IF inp.eventRepeatTimer # 0
                   THEN clearTimeout(inp, inp.eventRepeatTimer)
                   ELSE inp
        id == NewTimerId(cleared, cleared.switchModeTimer)
    IN  [cleared EXCEPT
           !.timers = MapSet(@, id,
                             IF pending THEN inp.timers[inp.eventRepeatTimer]
                             ELSE [kind |-> "repeat", eventType |-> eventType,
                                   detail |-> touchPos, touch |-> 0]),
           !.eventRepeatTimer = id,
           !.events = Append(@, [type |-> eventType, detail |-> touchPos])]

\* sendTouchEvent: the redelivery timer is cancelled and armed again with this
\* notification, and the notification is dispatched. touchPos is << >> when the
\* caller gives none.
sendTouchEvent(inp, eventType, touchPos) ==
    LET cleared == IF inp.eventRepeatTimer # 0
                   THEN clearTimeout(inp, inp.eventRepeatTimer)
                   ELSE inp
        id == NewTimerId(cleared, cleared.switchModeTimer)
    IN  [cleared EXCEPT
           !.timers = MapSet(@, id, [kind |-> "repeat", eventType |-> eventType,
                                     detail |-> touchPos, touch |-> 0]),
           !.eventRepeatTimer = id,
           !.events = Append(@, [type |-> eventType, detail |-> touchPos])]

\* if (this.switchModeTimer) clearTimeout(this.switchModeTimer).
clearSwitchModeTimer(inp) ==
    IF inp.switchModeTimer # 0 THEN clearTimeout(inp, inp.switchModeTimer) ELSE inp

\* this.switchModeTimer = setTimeout(..., 2000), armed by the touch id. The
\* callback dispatches the mode-switch notification.
armSwitchModeTimer(inp, id) ==
    LET timerId == NewTimerId(inp, inp.eventRepeatTimer)
    IN  [inp EXCEPT
           !.timers = MapSet(@, timerId,
                             [kind |-> "switchMode", eventType |-> "switchControllerMode",
                              detail |-> << >>, touch |-> id]),
           !.switchModeTimer = timerId]

\* sendHitOnViewEvent with the hit of handleTouchEnd: the page position in
\* normalized device coordinates, in hundredths.
sendHitOnViewEvent(inp, pos) ==
    [inp EXCEPT !.events =
        Append(@, [type |-> "hitOnView",
                   detail |-> <<(2 * Unit * pos[1]) \div InnerWidth - Unit,
                                Unit - (2 * Unit * pos[2]) \div InnerHeight>>])]

\* The TouchInfo registerTouch stores.
newTouchInfo(id, pos) ==
    [identifier |-> id, startPos |-> pos, lastPos |-> pos, currPos |-> pos,
     touchType |-> detectTouchType(pos)]

\* The mutation of registerTouch that does not look at the type index.
registerTouchNoTypeCheck(inp, id, pos) ==
    IF Cardinality(DOMAIN inp.touches) >= 2
    THEN inp
    ELSE LET touchType == detectTouchType(pos)
             sent == IF touchType = "NAV"
                     THEN sendTouchEvent(inp, "navTouchDown", pos)
                     ELSE inp
             armed == IF /\ touchType = "NAV"
                         /\ DistanceSq(pos, navTouchCenter)
                               <= touchErrorRadius * touchErrorRadius
                      THEN armSwitchModeTimer(clearSwitchModeTimer(sent), id)
                      ELSE sent
         IN  [armed EXCEPT !.touches = MapSet(@, id, newTouchInfo(id, pos)),
                           !.types = MapSet(@, touchType, id)]

\* The mutation of registerTouch in which a touch of a type that is taken
\* takes the place of the tracked one.
registerTouchLastWins(inp, id, pos) ==
    IF Cardinality(DOMAIN inp.touches) >= 2
    THEN inp
    ELSE LET touchType == detectTouchType(pos)
             sent == IF touchType = "NAV"
                     THEN sendTouchEvent(inp, "navTouchDown", pos)
                     ELSE inp
             armed == IF /\ touchType = "NAV"
                         /\ DistanceSq(pos, navTouchCenter)
                               <= touchErrorRadius * touchErrorRadius
                      THEN armSwitchModeTimer(clearSwitchModeTimer(sent), id)
                      ELSE sent
             others == IF touchType \in DOMAIN inp.types
                       THEN MapDelete(armed.touches, inp.types[touchType])
                       ELSE armed.touches
         IN  [armed EXCEPT !.touches = MapSet(others, id, newTouchInfo(id, pos)),
                           !.types = MapSet(@, touchType, id)]

\* The mutation of registerTouch that sends the nav notification before it
\* looks at the type index.
registerTouchSendFirst(inp, id, pos) ==
    IF Cardinality(DOMAIN inp.touches) >= 2
    THEN inp
    ELSE LET touchType == detectTouchType(pos)
             sent == IF touchType = "NAV"
                     THEN sendTouchEvent(inp, "navTouchDown", pos)
                     ELSE inp
             armed == IF /\ touchType = "NAV"
                         /\ DistanceSq(pos, navTouchCenter)
                               <= touchErrorRadius * touchErrorRadius
                      THEN armSwitchModeTimer(clearSwitchModeTimer(sent), id)
                      ELSE sent
         IN  IF touchType \in DOMAIN inp.types
             THEN sent
             ELSE [armed EXCEPT !.touches = MapSet(@, id, newTouchInfo(id, pos)),
                                !.types = MapSet(@, touchType, id)]

\* registerTouch.
registerTouch(inp, id, pos) ==
    IF Cardinality(DOMAIN inp.touches) >= 2
    THEN inp
    ELSE LET touchType == detectTouchType(pos)
             sent == IF touchType = "NAV"
                     THEN sendTouchEvent(inp, "navTouchDown", pos)
                     ELSE inp
             armed == IF /\ touchType = "NAV"
                         /\ DistanceSq(pos, navTouchCenter)
                               <= touchErrorRadius * touchErrorRadius
                      THEN armSwitchModeTimer(clearSwitchModeTimer(sent), id)
                      ELSE sent
         IN  IF touchType \in DOMAIN inp.types
             THEN inp
             ELSE [armed EXCEPT
                     !.touches = MapSet(@, id,
                                        [identifier |-> id, startPos |-> pos,
                                         lastPos |-> pos, currPos |-> pos,
                                         touchType |-> touchType]),
                     !.types = MapSet(@, touchType, id)]

\* The mutation of updateTouch that starts to track a touch it does not know.
updateTouchUntracked(inp, id, pos) ==
    IF id \in DOMAIN inp.touches
    THEN LET origTouch == inp.touches[id]
             sent == IF origTouch.touchType = "NAV"
                     THEN sendTouchEvent(inp, "navTouchDown", pos)
                     ELSE inp
             cleared == IF /\ origTouch.touchType = "NAV"
                           /\ DistanceSq(pos, navTouchCenter)
                                 > touchErrorRadius * touchErrorRadius
                        THEN clearSwitchModeTimer(sent)
                        ELSE sent
         IN  [cleared EXCEPT !.touches =
                 MapSet(@, id,
                        [identifier |-> id, startPos |-> origTouch.startPos,
                         lastPos |-> origTouch.currPos, currPos |-> pos,
                         touchType |-> origTouch.touchType])]
    ELSE [inp EXCEPT !.touches = MapSet(@, id, newTouchInfo(id, pos))]

\* updateTouch.
updateTouch(inp, id, pos) ==
    IF id \in DOMAIN inp.touches
    THEN LET origTouch == inp.touches[id]
             sent == IF origTouch.touchType = "NAV"
                     THEN sendTouchEvent(inp, "navTouchDown", pos)
                     ELSE inp
             cleared == IF /\ origTouch.touchType = "NAV"
                           /\ DistanceSq(pos, navTouchCenter)
                                 > touchErrorRadius * touchErrorRadius
                        THEN clearSwitchModeTimer(sent)
                        ELSE sent
         IN  [cleared EXCEPT !.touches =
                 MapSet(@, id,
                        [identifier |-> id, startPos |-> origTouch.startPos,
                         lastPos |-> origTouch.currPos, currPos |-> pos,
                         touchType |-> origTouch.touchType])]
    ELSE inp

\* The mutation of deregisterTouch that sends the touch-up notification and
\* then cancels the redelivery timeout as well.
deregisterTouchStopRepeat(inp, id) ==
    IF id \in DOMAIN inp.touches
    THEN LET origTouch == inp.touches[id]
             up == sendTouchEvent(inp, "navTouchUp", << >>)
             sent == IF origTouch.touchType = "NAV"
                     THEN clearSwitchModeTimer(clearTimeout(up, up.eventRepeatTimer))
                     ELSE inp
         IN  [sent EXCEPT !.touches = MapDelete(@, id),
                          !.types = MapDelete(@, origTouch.touchType)]
    ELSE inp

\* The mutation of deregisterTouch that leaves the long-press timeout alone.
deregisterTouchNoClear(inp, id) ==
    IF id \in DOMAIN inp.touches
    THEN LET origTouch == inp.touches[id]
             sent == IF origTouch.touchType = "NAV"
                     THEN sendTouchEvent(inp, "navTouchUp", << >>)
                     ELSE inp
         IN  [sent EXCEPT !.touches = MapDelete(@, id),
                          !.types = MapDelete(@, origTouch.touchType)]
    ELSE inp

\* deregisterTouch.
deregisterTouch(inp, id) ==
    IF id \in DOMAIN inp.touches
    THEN LET origTouch == inp.touches[id]
             sent == IF origTouch.touchType = "NAV"
                     THEN clearSwitchModeTimer(sendTouchEvent(inp, "navTouchUp", << >>))
                     ELSE inp
         IN  [sent EXCEPT !.touches = MapDelete(@, id),
                          !.types = MapDelete(@, origTouch.touchType)]
    ELSE inp

\* handleTouchEnd with one changed touch, which ends at pos.
handleTouchEnd(inp, id, pos) ==
    LET hit == IF /\ id \in DOMAIN inp.touches
                  /\ Abs(pos[1] - inp.touches[id].startPos[1]) <= touchErrorRadius
                  /\ Abs(pos[2] - inp.touches[id].startPos[2]) <= touchErrorRadius
               THEN sendHitOnViewEvent(inp, pos)
               ELSE inp
    IN  deregisterTouch(hit, id)

\* handleTouchEnd with two changed touches: the hit test reads the first
\* changed touch alone (touches[0]), then each changed touch is deregistered.
handleTouchEndTwo(inp, id1, pos1, id2, pos2) ==
    deregisterTouch(handleTouchEnd(inp, id1, pos1), id2)

\* ------------------------------------------------------------- control mode

\* The digit of a key code 'Digit<n>' (Number(code.substring(5))), -1 for any
\* other code.
DigitCodes ==
    [Digit0 |-> 0, Digit1 |-> 1, Digit2 |-> 2, Digit3 |-> 3, Digit4 |-> 4,
     Digit5 |-> 5, Digit6 |-> 6, Digit7 |-> 7, Digit8 |-> 8, Digit9 |-> 9]
targetModeCode(code) ==
    IF code \in DOMAIN DigitCodes THEN DigitCodes[code] ELSE -1

\* The controller fields switchControlMode works on.
ModeState ==
    [controlMode |-> controlMode, playerActor |-> playerActor,
     pendingLoads |-> pendingLoads]

\* The mutation of switchControlMode that sets the mode at once when there is
\* neither an actor nor a loader.
switchControlModeNoActor(ctl, targetMode) ==
    LET newMode == IF targetMode >= 0 THEN targetMode
                   ELSE (ctl.controlMode + 1) % 3
    IN  IF newMode = CTRL_MODE_FPS
        THEN [ctl EXCEPT !.playerActor = IF @ # "undefined" THEN "hidden" ELSE @,
                         !.controlMode = newMode]
        ELSE IF ctl.playerActor # "undefined"
        THEN [ctl EXCEPT !.playerActor = "visible", !.controlMode = newMode]
        ELSE IF playerActorLoader
        THEN [ctl EXCEPT !.pendingLoads = Append(@, newMode)]
        ELSE [ctl EXCEPT !.controlMode = newMode]

\* The mutation of switchControlMode that sets the mode when it calls the
\* loader, without waiting for the loader's callback.
switchControlModeEager(ctl, targetMode) ==
    LET newMode == IF targetMode >= 0 THEN targetMode
                   ELSE (ctl.controlMode + 1) % 3
    IN  IF newMode = CTRL_MODE_FPS
        THEN [ctl EXCEPT !.playerActor = IF @ # "undefined" THEN "hidden" ELSE @,
                         !.controlMode = newMode]
        ELSE IF ctl.playerActor # "undefined"
        THEN [ctl EXCEPT !.playerActor = "visible", !.controlMode = newMode]
        ELSE IF playerActorLoader
        THEN [ctl EXCEPT !.pendingLoads = Append(@, newMode),
                         !.controlMode = newMode]
        ELSE ctl

\* The mutation of switchControlMode that leaves the actor's visibility as it
\* is when it switches to first person.
switchControlModeNoHide(ctl, targetMode) ==
    LET newMode == IF targetMode >= 0 THEN targetMode
                   ELSE (ctl.controlMode + 1) % 3
    IN  IF newMode = CTRL_MODE_FPS
        THEN [ctl EXCEPT !.controlMode = newMode]
        ELSE IF ctl.playerActor # "undefined"
        THEN [ctl EXCEPT !.playerActor = "visible", !.controlMode = newMode]
        ELSE IF playerActorLoader
        THEN [ctl EXCEPT !.pendingLoads = Append(@, newMode)]
        ELSE ctl

\* switchControlMode(targetMode), targetMode -1 when the argument is omitted.
\* The loader is called with a callback that sets the actor and newMode; the
\* loader keeps the callback until the actor is ready.
switchControlMode(ctl, targetMode) ==
    LET newMode == IF targetMode >= 0 THEN targetMode
                   ELSE (ctl.controlMode + 1) % 3
    IN  IF newMode = CTRL_MODE_FPS
        THEN [ctl EXCEPT !.playerActor = IF @ # "undefined" THEN "hidden" ELSE @,
                         !.controlMode = newMode]
        ELSE IF ctl.playerActor # "undefined"
        THEN [ctl EXCEPT !.playerActor = "visible", !.controlMode = newMode]
        ELSE IF playerActorLoader
        THEN [ctl EXCEPT !.pendingLoads = Append(@, newMode)]
        ELSE ctl

\* The controller's keydown listener.
onKeyDown(ctl, code) ==
    IF targetModeCode(code) > 0
    THEN switchControlMode(ctl, targetModeCode(code) - 1)
    ELSE ctl

\* The controller after a listener that ends with the fields of ctl.
ModeFrame(ctl) ==
    /\ controlMode' = ctl.controlMode
    /\ playerActor' = ctl.playerActor
    /\ pendingLoads' = ctl.pendingLoads
    /\ UNCHANGED playerActorLoader

\* ---------------------------------------------------------------- actions

\* The record of an update that has not run.
NoTick ==
    [navTurn |-> FALSE, rotateTurn |-> FALSE, rotateVector |-> <<0, 0>>,
     navVelocity |-> <<0, 0>>, impulse |-> FALSE, reborn |-> FALSE]

\* What every input handler leaves alone.
HandlerFrame(name, args) ==
    /\ lastOp' = Op(name, args)
    /\ calls' = << >> /\ evals' = << >> /\ trace' = << >>
    /\ tick' = NoTick
    /\ UNCHANGED <<fsmVars, registered, started, cntVars, onMobile, taskQueue,
                   isPlayerJumping, playerOnFloor, bodyVars, impulses>>

\* What a keyboard, touch, timer or loader handler leaves alone.
InputFrame(name, args) ==
    /\ HandlerFrame(name, args)
    /\ UNCHANGED <<mouseVars, motion>>

\* The input object after a touch handler that ends with the fields of inp.
TouchFrame(inp) ==
    /\ activeTouches' = inp.touches
    /\ activeToucheTypes' = inp.types
    /\ switchModeTimer' = inp.switchModeTimer
    /\ eventRepeatTimer' = inp.eventRepeatTimer
    /\ timers' = inp.timers
    /\ events' = inp.events
    /\ UNCHANGED activetKeys

\* A keydown event on the document: handleKeyDown of the input object, which
\* listens on a desktop only, then the controller's listener. The call is
\* recorded with the target mode the listener asked for, if it asked.
KeyDown(code) ==
    /\ Cardinality(activetKeys \cup {code}) <= MaxKeys
    /\ activetKeys' = IF ~onMobile /\ targetModeCode(code) < 0
                      THEN activetKeys \cup {code} ELSE activetKeys
    /\ ModeFrame(onKeyDown(ModeState, code))
    /\ events' = << >>
    /\ InputFrame("keydown", IF targetModeCode(code) > 0
                             THEN <<targetModeCode(code) - 1>> ELSE << >>)
    /\ UNCHANGED touchVars

\* A keyup event: handleKeyUp (desktop), for a key that is down or a digit key.
KeyUp(code) ==
    /\ ~onMobile
    /\ code \in activetKeys \/ targetModeCode(code) >= 0
    /\ activetKeys' = IF targetModeCode(code) < 0 THEN activetKeys \ {code}
                      ELSE activetKeys
    /\ events' = << >>
    /\ InputFrame("keyup", << >>)
    /\ UNCHANGED <<touchVars, modeVars>>

\* handleTouchStart with one changed touch (touch device). Identifiers only
\* tell touches apart, so the new touch gets the least one not on the screen.
TouchStart(id, pos) ==
    /\ onMobile
    /\ id \notin fingers /\ \A other \in TouchIds \ fingers : id <= other
    /\ fingers' = fingers \cup {id}
    /\ TouchFrame(registerTouch(TouchState, id, pos))
    /\ nTouchEvents' = nTouchEvents + 1
    /\ InputFrame("touchstart", <<id, pos>>)
    /\ UNCHANGED modeVars

\* handleTouchStart with one changed touch whose identifier is tracked: the
\* finger that was tracked left the screen with no touchend or touchcancel
\* reaching the document, and the browser gives its identifier to a new one.
TouchStartTracked(id, pos) ==
    /\ onMobile
    /\ id \in DOMAIN activeTouches
    /\ TouchFrame(registerTouch(TouchState, id, pos))
    /\ nTouchEvents' = nTouchEvents + 1
    /\ InputFrame("touchstart", <<id, pos>>)
    /\ UNCHANGED <<fingers, modeVars>>

\* handleTouchMove with one changed touch, of any identifier.
TouchMove(id, pos) ==
    /\ onMobile
    /\ TouchFrame(updateTouch(TouchState, id, pos))
    /\ nTouchEvents' = nTouchEvents + 1
    /\ InputFrame("touchmove", <<id, pos>>)
    /\ UNCHANGED <<fingers, modeVars>>

\* handleTouchEnd with one changed touch, of any identifier.
TouchEnd(id, pos) ==
    /\ onMobile
    /\ fingers' = fingers \ {id}
    /\ TouchFrame(handleTouchEnd(TouchState, id, pos))
    /\ nTouchEvents' = nTouchEvents + 1
    /\ InputFrame("touchend", <<id, pos>>)
    /\ UNCHANGED modeVars

\* handleTouchEnd with two changed touches: two fingers leave the screen in
\* the same event.
TouchEndTwo(id1, pos1, id2, pos2) ==
    /\ onMobile
    /\ id1 # id2
    /\ fingers' = fingers \ {id1, id2}
    /\ TouchFrame(handleTouchEndTwo(TouchState, id1, pos1, id2, pos2))
    /\ nTouchEvents' = nTouchEvents + 1
    /\ InputFrame("touchend", <<id1, pos1, id2, pos2>>)
    /\ UNCHANGED modeVars

\* handleTouchCancel with one changed touch, of any identifier.
TouchCancel(id) ==
    /\ onMobile
    /\ fingers' = fingers \ {id}
    /\ TouchFrame(deregisterTouch(TouchState, id))
    /\ nTouchEvents' = nTouchEvents + 1
    /\ InputFrame("touchcancel", <<id>>)
    /\ UNCHANGED modeVars

\* The redelivery timeout id expires: its callback sends the notification
\* again.
RepeatTimerFire(id) ==
    /\ id \in DOMAIN timers /\ timers[id].kind = "repeat"
    /\ TouchFrame(sendTouchEvent(clearTimeout(TouchState, id),
                                 timers[id].eventType, timers[id].detail))
    /\ InputFrame("eventRepeatTimer", <<id>>)
    /\ UNCHANGED <<fingers, nTouchEvents, modeVars>>

\* The long-press timeout id expires: its callback dispatches the mode-switch
\* notification, and the controller's listener switches to the next mode.
SwitchModeTimerFire(id) ==
    /\ id \in DOMAIN timers /\ timers[id].kind = "switchMode"
    /\ timers' = MapDelete(timers, id)
    /\ events' = <<[type |-> timers[id].eventType, detail |-> timers[id].detail]>>
    /\ ModeFrame(switchControlMode(ModeState, -1))
    /\ InputFrame("switchModeTimer", <<id>>)
    /\ UNCHANGED <<activetKeys, activeTouches, activeToucheTypes, fingers,
                   nTouchEvents, switchModeTimer, eventRepeatTimer>>

\* setActorLoader.
SetActorLoader ==
    /\ ~playerActorLoader
    /\ playerActorLoader' = TRUE
    /\ events' = << >>
    /\ InputFrame("setActorLoader", << >>)
    /\ UNCHANGED <<activetKeys, touchVars, controlMode, playerActor, pendingLoads>>

\* The mutation of ActorLoaded whose callback gives way to a switch made
\* since: it sets the mode only while no actor is stored.
ActorLoadedFirstOnly(i) ==
    /\ i \in 1..Len(pendingLoads)
    /\ playerActor' = "visible"
    /\ controlMode' = IF playerActor = "undefined" THEN pendingLoads[i]
                      ELSE controlMode
    /\ pendingLoads' = [k \in 1..(Len(pendingLoads) - 1) |->
                           IF k < i THEN pendingLoads[k] ELSE pendingLoads[k + 1]]
    /\ events' = << >>
    /\ InputFrame("actorSaver", <<pendingLoads[i]>>)
    /\ UNCHANGED <<activetKeys, touchVars, playerActorLoader>>

\* The loader calls the i-th callback it holds with the loaded actor: the
\* actor is stored and shown, and the mode the callback was made for is set.
ActorLoaded(i) ==
    /\ i \in 1..Len(pendingLoads)
    /\ playerActor' = "visible"
    /\ controlMode' = pendingLoads[i]
    /\ pendingLoads' = [k \in 1..(Len(pendingLoads) - 1) |->
                           IF k < i THEN pendingLoads[k] ELSE pendingLoads[k + 1]]
    /\ events' = << >>
    /\ InputFrame("actorSaver", <<pendingLoads[i]>>)
    /\ UNCHANGED <<activetKeys, touchVars, playerActorLoader>>

\* What a mouse handler leaves alone.
MouseFrame(name, args) ==
    /\ HandlerFrame(name, args)
    /\ UNCHANGED <<activetKeys, touchVars, modeVars, motion>>

\* handleMouseDown: a button goes down over the container (desktop).
MouseDown(button) ==
    /\ ~onMobile
    /\ button \notin mouseHeld
    /\ mouseHeld' = mouseHeld \cup {button}
    /\ activeMouseKeys' = IF lockScreenOnMouseClick THEN activeMouseKeys
                          ELSE activeMouseKeys \cup {button}
    /\ events' = << >>
    /\ MouseFrame("mousedown", <<button>>)
    /\ UNCHANGED <<mouseMoveVector, movedSinceQuery>>

\* handleMouseUp: a button is released over the container at page position
\* pos. The hit is sent when the recorded buttons are the left one alone, and
\* the released button is taken off the record.
MouseUp(button, pos) ==
    /\ ~onMobile
    /\ button \in mouseHeld
    /\ mouseHeld' = mouseHeld \ {button}
    /\ events' = IF activeMouseKeys = {MOUSE_LEFT_KEY}
                 THEN sendHitOnViewEvent([events |-> << >>], pos).events
                 ELSE << >>
    /\ activeMouseKeys' = activeMouseKeys \ {button}
    /\ MouseFrame("mouseup", <<button>>)
    /\ UNCHANGED <<mouseMoveVector, movedSinceQuery>>

\* A button goes down or is released while the pointer is not over the
\* container: the container's listeners are not called.
MouseDownElsewhere(button) ==
    /\ ~onMobile
    /\ button \notin mouseHeld
    /\ mouseHeld' = mouseHeld \cup {button}
    /\ events' = << >>
    /\ MouseFrame("mousedown elsewhere", <<button>>)
    /\ UNCHANGED <<activeMouseKeys, mouseMoveVector, movedSinceQuery>>

MouseUpElsewhere(button) ==
    /\ ~onMobile
    /\ button \in mouseHeld
    /\ mouseHeld' = mouseHeld \ {button}
    /\ events' = << >>
    /\ MouseFrame("mouseup elsewhere", <<button>>)
    /\ UNCHANGED <<activeMouseKeys, mouseMoveVector, movedSinceQuery>>

\* handleMouseMove: the pointer moves by movement over the container; locked
\* says whether document.pointerLockElement is the body.
MouseMove(movement, locked) ==
    LET accepted == /\ ~lockScreenOnMouseClick \/ locked
                    /\ \/ holdMouseKeyToRotate < 0
                       \/ holdMouseKeyToRotate \in activeMouseKeys
        moved == <<movedSinceQuery[1] + movement[1],
                   movedSinceQuery[2] + movement[2]>>
    IN  /\ ~onMobile
        /\ Abs(moved[1]) <= MaxMoved /\ Abs(moved[2]) <= MaxMoved
        /\ mouseMoveVector' = IF accepted THEN movement ELSE mouseMoveVector
        /\ movedSinceQuery' = IF accepted THEN moved ELSE movedSinceQuery
        /\ events' = << >>
        /\ MouseFrame("mousemove", <<movement>>)
        /\ UNCHANGED <<activeMouseKeys, mouseHeld>>

\* The caller queues a task through the tasks accessor.
TaskPush(task) ==
    /\ Len(taskQueue) < MaxTasks
    /\ taskQueue' = Append(taskQueue, task)
    /\ lastOp' = Op("tasks.push", << >>)
    /\ calls' = << >> /\ evals' = << >> /\ trace' = << >> /\ events' = << >>
    /\ tick' = NoTick
    /\ UNCHANGED <<fsmVars, registered, started, cntVars, deviceVars,
                   isPlayerJumping, playerOnFloor, modeVars, bodyVars, impulses,
                   motion>>

\* The value getRotateVector returns, in pixels: the code scales the
\* components by positive factors. On a touch device in rotate mode 1 it is
\* the ROTATE touch's movement, on a desktop mouseMoveVector.
getRotateVector ==
    IF onMobile
    THEN IF HasActiveTouch("ROTATE")
         THEN LET rotateTouch == ActiveTouchOf("ROTATE")
              IN  <<rotateTouch.currPos[1] - rotateTouch.lastPos[1],
                    rotateTouch.currPos[2] - rotateTouch.lastPos[2]>>
         ELSE <<0, 0>>
    ELSE mouseMoveVector

\* The mutation of getRotateVectorTouches in which a query on a touch device
\* uses the ROTATE touch's movement up: lastPos becomes currPos.
getRotateVectorConsume ==
    IF onMobile /\ HasActiveTouch("ROTATE")
    THEN [id \in DOMAIN activeTouches |->
            IF activeTouches[id].touchType = "ROTATE"
            THEN [activeTouches[id] EXCEPT !.lastPos = activeTouches[id].currPos]
            ELSE activeTouches[id]]
    ELSE activeTouches

\* activeTouches after getRotateVector: the touch branch reads the ROTATE
\* touch's positions into a new vector and writes to no field.
getRotateVectorTouches == activeTouches

\* The mutation of getRotateVectorClear that keeps the accumulator.
getRotateVectorKeep == mouseMoveVector

\* mouseMoveVector after getRotateVector: a desktop query clears it
\* (this.mouseMoveVector.copy(_STAY_VECTOR)).
getRotateVectorClear == IF onMobile THEN mouseMoveVector ELSE <<0, 0>>

\* updateControls without a task: whether the nav input turns the proxy
\* (observer: lookAt; chase: |x| > 0.3) and whether the rotate input does
\* (chase, when the nav input does not; first person).
navTurns(inputNavVector) ==
    \/ controlMode = CTRL_MODE_OB /\ length(inputNavVector) > 0
    \/ controlMode = CTRL_MODE_CHASE /\ 10 * Abs(inputNavVector[1]) > 3 * Unit
rotateTurns(inputNavVector, inputRotateVector) ==
    /\ inputRotateVector # <<0, 0>>
    /\ \/ controlMode = CTRL_MODE_CHASE /\ ~(10 * Abs(inputNavVector[1]) > 3 * Unit)
       \/ controlMode = CTRL_MODE_FPS

\* The mutation of navVelocityDelta in which running does not double the
\* acceleration.
navVelocityDeltaNoRun(state, inputNavVector) ==
    LET speedDelta == IF playerOnFloor THEN moveAcceleration ELSE jumpAcceleration
    IN  IF inputNavVector # <<0, 0>>
        THEN IF controlMode = CTRL_MODE_CHASE
             THEN <<0, Sign(inputNavVector[2]) * Unit * speedDelta>>
             ELSE <<inputNavVector[1] * speedDelta, inputNavVector[2] * speedDelta>>
        ELSE <<0, 0>>

\* updatePlayer, the nav part: what is added to playerVelocity per unit of
\* deltaTime, as <<sideways, forward>> components in hundredths (in observer
\* mode: along the camera offset's axes). state is the state machine's state
\* after its update. In chase mode the x component is dropped and the rest
\* normalized again.
navVelocityDelta(state, inputNavVector) ==
    LET speedDelta == (IF playerOnFloor THEN moveAcceleration ELSE jumpAcceleration)
                      * (IF state = "run" THEN 2 ELSE 1)
    IN  IF inputNavVector # <<0, 0>>
        THEN IF controlMode = CTRL_MODE_CHASE
             THEN <<0, Sign(inputNavVector[2]) * Unit * speedDelta>>
             ELSE <<inputNavVector[1] * speedDelta, inputNavVector[2] * speedDelta>>
        ELSE <<0, 0>>

\* The mutation of jumpImpulse that does not look at the latch.
jumpImpulseNoLatch == playerOnFloor /\ getJumpFlag

\* updatePlayer, the jump part: whether playerVelocity.y is set to
\* jumpUpVelocity.
jumpImpulse == playerOnFloor /\ getJumpFlag /\ ~isPlayerJumping

\* The frames followed: deltaTime is 1 / den seconds, and keep is
\* Math.exp(-4 * deltaTime) as a fraction <<numerator, denominator>>
\* (e^-1 is 0.37, e^-0.4 is 0.67).
Frames == {[den |-> 4, keep |-> <<3, 8>>], [den |-> 10, keep |-> <<2, 3>>]}

\* 1 + damping as a fraction: Math.exp(-4 * deltaTime) on the floor; off it
\* damping is multiplied by 0.1.
dampingOf(frame) ==
    IF playerOnFloor THEN frame.keep
    ELSE <<9 * frame.keep[2] + frame.keep[1], 10 * frame.keep[2]>>

RECURSIVE Pow(_, _)
Pow(base, n) == IF n = 0 THEN 1 ELSE base * Pow(base, n - 1)

\* The mutation of updateVelocity without the damping.
updateVelocityNoDamping(velocity, ticks, state, inputNavVector, frame) ==
    LET keep == dampingOf(frame)
        scale == Pow(keep[2], ticks)
        delta == navVelocityDelta(state, inputNavVector)
        up == IF jumpImpulse THEN jumpUpVelocity * Unit * frame.den * scale
              ELSE velocity[2]
    IN  <<(velocity[1] + delta[1] * scale) * keep[2],
          (IF playerOnFloor THEN up ELSE up - gravity * Unit * scale) * keep[2],
          (velocity[3] + delta[2] * scale) * keep[2]>>

\* updatePlayer, the arithmetic on playerVelocity, without rounding: the nav
\* input's acceleration, the jump impulse, gravity off the floor, and the
\* damping. A velocity is <<sideways, up, forward>> of the proxy in hundredths;
\* after ticks calls it is kept multiplied by frame.den and by the damping's
\* denominator to the power ticks, so that every value is an integer.
updateVelocity(velocity, ticks, state, inputNavVector, frame) ==
    LET keep == dampingOf(frame)
        scale == Pow(keep[2], ticks)
        delta == navVelocityDelta(state, inputNavVector)
        up == IF jumpImpulse THEN jumpUpVelocity * Unit * frame.den * scale
              ELSE velocity[2]
    IN  <<(velocity[1] + delta[1] * scale) * keep[1],
          (IF playerOnFloor THEN up ELSE up - gravity * Unit * scale) * keep[1],
          (velocity[3] + delta[2] * scale) * keep[1]>>

\* updatePlayer for a velocity followed in the locomotion state state: the
\* new velocity, and deltaPosition (the velocity times deltaTime) added to the
\* distance moved. The distance is kept in units of deltaTime, on the
\* velocity's scale.
updatePlayer(followed, ticks, state, inputNavVector, frame) ==
    LET velocity == updateVelocity(followed.velocity, ticks, state,
                                   inputNavVector, frame)
        base == dampingOf(frame)[2]
    IN  [velocity |-> velocity,
         moved |-> <<followed.moved[1] * base + velocity[1],
                     followed.moved[2] * base + velocity[2],
                     followed.moved[3] * base + velocity[3]>>]

\* One update of the velocities followed: the same nav input and frame, once
\* with the state machine in 'walk' and once in 'run'.
UpdatePlayer ==
    /\ motion.ticks < MaxTicks
    /\ motion' = [motion EXCEPT
                    !.ticks = @ + 1,
                    !.walk = updatePlayer(@, motion.ticks, "walk", motion.nav,
                                          motion.frame),
                    !.run = updatePlayer(@, motion.ticks, "run", motion.nav,
                                         motion.frame)]
    /\ events' = << >>
    /\ HandlerFrame("updatePlayer", << >>)
    /\ UNCHANGED <<activetKeys, touchVars, mouseVars, modeVars>>

\* The jump latch after updatePlayer.
jumpLatch ==
    IF playerOnFloor
    THEN IF jumpImpulse THEN TRUE
         ELSE IF isPlayerJumping THEN FALSE ELSE isPlayerJumping
    ELSE isPlayerJumping

\* Capsule.translate.
translate(capsule, v) ==
    [start |-> <<capsule.start[1] + v[1], capsule.start[2] + v[2],
                 capsule.start[3] + v[3]>>,
     end |-> <<capsule.end[1] + v[1], capsule.end[2] + v[2], capsule.end[3] + v[3]>>]

\* The capsule and the proxy as the constructor and rebornPlayerIfFall set
\* them: rotation (0, 0, 0) turned about the world's y axis by bornRotationY.
bornCollider ==
    [start |-> <<bornPos[1], playerCapsuleRadius, bornPos[2]>>,
     end |-> <<bornPos[1], viewHeight, bornPos[2]>>]
bornProxy ==
    [position |-> bornCollider.end, rotation |-> <<0, bornRotationY, 0>>]

\* The mutation of rebornPlayerIfFall that keeps the proxy's rotation.
rebornPlayerIfFallKeepRotation(body) ==
    IF body.proxy.position[2] <= fallingThreshold
    THEN [collider |-> bornCollider,
          proxy |-> [position |-> bornCollider.end, rotation |-> body.proxy.rotation]]
    ELSE body

\* rebornPlayerIfFall.
rebornPlayerIfFall(body) ==
    IF body.proxy.position[2] <= fallingThreshold
    THEN [collider |-> bornCollider, proxy |-> bornProxy]
    ELSE body

\* PlayerController.update: the state machine's update; updateControls (with a
\* task: the front task's processor, which may take the task off the queue and
\* aim the proxy; without: the input turns the proxy); updatePlayer (the nav
\* input's velocity, the jump latch read against the floor contact of the
\* previous call, the capsule's translation; playerCollisions then sets
\* playerOnFloor from the collision query's answer and pushes the capsule out);
\* rebornPlayerIfFall. The velocity and the angles are real numbers: the
\* capsule's displacement of this call is one of moves, and a proxy that is
\* turned ends at one of the rotations turns; the processor says whether its
\* task is done (taskDone) and the collision query whether the capsule rests
\* on a floor (onFloor).
TickOn(moves, turns, floors) ==
    LET st == update(LocoInput)
        hasTasks == Len(taskQueue) > 0
        inputNavVector == getNavVector
        navTurn == ~hasTasks /\ navTurns(inputNavVector)
        inputRotateVector == IF hasTasks THEN <<0, 0>> ELSE getRotateVector
        rotateTurn == ~hasTasks /\ rotateTurns(inputNavVector, inputRotateVector)
        turned == hasTasks \/ navTurn \/ rotateTurn
        navVelocity == navVelocityDelta(st.currentState, inputNavVector)
    IN  /\ currentState' = st.currentState
        /\ calls' = st.calls
        /\ evals' = st.evals
        /\ trace' = st.trace
        /\ lastOp' = Op("update", <<LocoInput>>)
        /\ \E taskDone \in IF hasTasks THEN BOOLEAN ELSE {FALSE} :
              taskQueue' = IF taskDone THEN Tail(taskQueue) ELSE taskQueue
        /\ isPlayerJumping' = jumpLatch
        /\ \E onFloor \in floors : playerOnFloor' = onFloor
        /\ \E move \in moves,
              turn \in IF turned THEN turns ELSE {playerProxy.rotation} :
              LET collider == translate(playerCollider, move)
                  body == rebornPlayerIfFall(
                              [collider |-> collider,
                               proxy |-> [position |-> collider.end,
                                          rotation |-> turn]])
              IN  /\ playerCollider' = body.collider
                  /\ playerProxy' = body.proxy
                  /\ tick' = [navTurn |-> navTurn, rotateTurn |-> rotateTurn,
                              rotateVector |-> inputRotateVector,
                              navVelocity |-> navVelocity,
                              impulse |-> jumpImpulse,
                              reborn |-> collider.end[2] <= fallingThreshold]
        /\ impulses' = IF jumpImpulse THEN Min(impulses + 1, 2)
                       ELSE IF playerOnFloor THEN 0 ELSE impulses
        /\ events' = << >>
        /\ mouseMoveVector' = IF hasTasks THEN mouseMoveVector
                              ELSE getRotateVectorClear
        /\ movedSinceQuery' = IF hasTasks \/ onMobile THEN movedSinceQuery
                              ELSE <<0, 0>>
        /\ activeTouches' = IF hasTasks THEN activeTouches
                            ELSE getRotateVectorTouches
        /\ UNCHANGED <<states, transitions, onEnterFuncs, onExitFuncs, registered,
                       started, cntVars, onMobile, activetKeys, activeToucheTypes,
                       fingers, nTouchEvents, switchModeTimer, eventRepeatTimer,
                       timers, activeMouseKeys, mouseHeld, modeVars>>

\* PlayerController.update where the velocity is not followed: the collision
\* query may answer either way.
Tick(moves, turns) == TickOn(moves, turns, BOOLEAN) /\ UNCHANGED motion

\* The mutation of updateFollowed in which a respawn clears the velocity.
updateFollowedReset(followed, ticks, state, inputNavVector, frame, reborn) ==
    LET after == updatePlayer(followed, ticks, state, inputNavVector, frame)
    IN  IF reborn THEN [after EXCEPT !.velocity = <<0, 0, 0>>] ELSE after

\* PlayerController.update, what it does to playerVelocity: updatePlayer
\* writes it; rebornPlayerIfFall, which follows, sets the capsule and the
\* proxy and has no statement on playerVelocity, whether it respawns (reborn)
\* or not.
updateFollowed(followed, ticks, state, inputNavVector, frame, reborn) ==
    updatePlayer(followed, ticks, state, inputNavVector, frame)

\* PlayerController.update of a capsule in free fall, the velocity followed:
\* the collision query finds nothing (playerCollisions leaves playerVelocity
\* alone and playerOnFloor is false), and the capsule's displacement, the
\* velocity times deltaTime, is one of moves.
TickFall(moves, turns) ==
    /\ motion.ticks < MaxFalls
    /\ TickOn(moves, turns, {FALSE})
    /\ motion' = [motion EXCEPT
                    !.ticks = @ + 1,
                    !.player = updateFollowed(@, motion.ticks,
                                              update(LocoInput).currentState,
                                              getNavVector, motion.frame,
                                              tick'.reborn)]

\* ----------------------------------------------------------- specification

\* The controller's fields after construction: the state machine as
\* PlayerCtrlFSM.init builds it, started in 'idle'. playerOnFloor is onFloor
\* and the velocity followed is followed.
InitFields(onFloor, followed) ==
    /\ states = {LocoStates[k] : k \in 1..Len(LocoStates)}
    /\ currentState = "idle"
    /\ transitions = initTransitions(Len(LocoTransitions))
    /\ onEnterFuncs = EmptyMap
    /\ onExitFuncs = EmptyMap
    /\ calls = << >>
    /\ evals = << >>
    /\ trace = << >>
    /\ lastOp = [op |-> "startup", args |-> <<"idle">>, from |-> Unset]
    /\ registered = [p \in {<<LocoTransitions[k][1], LocoTransitions[k][2]>> :
                              k \in 1..Len(LocoTransitions)} |->
                        <<(CHOOSE g \in {LocoTransitions[k][3] :
                                           k \in 1..Len(LocoTransitions)} :
                             <<p[1], p[2], g>> \in
                                {LocoTransitions[k] : k \in 1..Len(LocoTransitions)})>>]
    /\ started = TRUE
    /\ nRegs = Len(LocoStates) + Len(LocoTransitions)
    /\ activetKeys = {}
    /\ activeTouches = EmptyMap
    /\ activeToucheTypes = EmptyMap
    /\ fingers = {}
    /\ nTouchEvents = 0
    /\ switchModeTimer = 0
    /\ eventRepeatTimer = 0
    /\ timers = EmptyMap
    /\ events = << >>
    /\ taskQueue = << >>
    /\ isPlayerJumping = FALSE
    /\ playerOnFloor = onFloor
    /\ controlMode = CTRL_MODE_FPS
    /\ playerActor = "undefined"
    /\ playerActorLoader = FALSE
    /\ pendingLoads = << >>
    /\ playerCollider = bornCollider
    /\ playerProxy = bornProxy
    /\ tick = NoTick
    /\ impulses = 0
    /\ activeMouseKeys = {}
    /\ mouseMoveVector = <<0, 0>>
    /\ mouseHeld = {}
    /\ movedSinceQuery = <<0, 0>>
    /\ motion = followed

\* The controller as its constructor leaves it: off the floor until the first
\* collision query, no velocity followed.
InitController == InitFields(FALSE, << >>)

InitLoco == InitController /\ onMobile \in BOOLEAN

\* Keys, touches, tasks and updates. The actor stands where it is and keeps
\* its heading: the capsule's displacement is zero and a turn ends at the
\* rotation it started from.
NextLoco ==
    \/ \E code \in KeyCodes : ~onMobile /\ KeyDown(code)
    \/ \E code \in KeyCodes : KeyUp(code)
    \/ \E id \in TouchIds, pos \in TouchPoints :
          nTouchEvents < MaxTouchEvents /\ id \in fingers /\ TouchMove(id, pos)
    \/ \E id \in TouchIds, pos \in TouchPoints :
          nTouchEvents < MaxTouchEvents /\ TouchStart(id, pos)
    \/ \E id \in TouchIds, pos \in TouchPoints :
          nTouchEvents < MaxTouchEvents /\ id \in fingers /\ TouchEnd(id, pos)
    \/ \E id \in TouchIds :
          nTouchEvents < MaxTouchEvents /\ id \in fingers /\ TouchCancel(id)
    \/ \E id \in DOMAIN timers : RepeatTimerFire(id)
    \/ \E task \in Tasks : TaskPush(task)
    \/ Tick({<<0, 0, 0>>}, {playerProxy.rotation})

SpecLoco == InitLoco /\ [][NextLoco]_vars

\* The touch device alone: touch events of any identifier, tracked or not, one
\* changed touch per event, and the expiry of the timeouts.
InitTouch == InitController /\ onMobile = TRUE

NextTouch ==
    \/ \E id \in TouchIds, pos \in TouchPoints :
          nTouchEvents < MaxTouchSteps /\ TouchStart(id, pos)
    \/ \E id \in TouchIds, pos \in TouchPoints :
          nTouchEvents < MaxTouchSteps /\ TouchMove(id, pos)
    \/ \E id \in TouchIds, pos \in TouchPoints :
          nTouchEvents < MaxTouchSteps /\ TouchEnd(id, pos)
    \/ \E id \in TouchIds : nTouchEvents < MaxTouchSteps /\ TouchCancel(id)
    \/ \E id \in DOMAIN timers : RepeatTimerFire(id)
    \/ \E id \in DOMAIN timers : SwitchModeTimerFire(id)

SpecTouch == InitTouch /\ [][NextTouch]_vars

\* The keys pressed in SpecMode: the digit keys 0 to 4 and a letter.
ModeKeyCodes == {"Digit0", "Digit1", "Digit2", "Digit3", "Digit4", "KeyW"}

\* The control mode on a touch device with a keyboard (the controller's
\* keydown listener does not ask for the device kind): digit keys, long
\* presses at the pad's centre, the caller's actor loader and its completions.
InitMode == InitController /\ onMobile = TRUE

NextMode ==
    \/ \E code \in ModeKeyCodes : Len(pendingLoads) < MaxLoads /\ KeyDown(code)
    \/ \E id \in TouchIds :
          nTouchEvents < MaxTouchSteps /\ TouchStart(id, navTouchCenter)
    \/ \E id \in TouchIds :
          nTouchEvents < MaxTouchSteps /\ id \in fingers /\ TouchCancel(id)
    \/ \E id \in DOMAIN timers :
          Len(pendingLoads) < MaxLoads /\ SwitchModeTimerFire(id)
    \/ SetActorLoader
    \/ \E i \in 1..MaxLoads : ActorLoaded(i)

SpecMode == InitMode /\ [][NextMode]_vars

\* The velocities a followed run starts with, in hundredths, and the nav
\* inputs it is given: none, forward, to the left, and forward to the right.
StartVelocities == {<<0, 0, 0>>, <<3, 0, 0>>, <<0, 0, -2>>, <<-1, 2, 4>>}
NavInputs == {<<0, 0>>, <<0, Unit>>, <<-Unit, 0>>,
              <<(3 * Unit) \div 5, (4 * Unit) \div 5>>}

\* A controller standing on a floor with some velocity, some nav input held
\* and frames of one length: updatePlayer's arithmetic is followed from there.
InitGait ==
    /\ onMobile = FALSE
    /\ \E frame \in Frames, start \in StartVelocities, nav \in NavInputs :
          LET velocity == <<start[1] * frame.den, start[2] * frame.den,
                            start[3] * frame.den>>
              followed == [velocity |-> velocity, moved |-> <<0, 0, 0>>]
          IN  InitFields(TRUE, [frame |-> frame, nav |-> nav, start |-> start,
                                ticks |-> 0, walk |-> followed, run |-> followed])

NextGait == UpdatePlayer

SpecGait == InitGait /\ [][NextGait]_vars

\* Positions on the nav pad at, just inside and just outside the dead zone's
\* edge on either axis.
PadPoints == {<<x, y>> : x \in {130, 150, 170, 171}, y \in {479, 480, 500, 521}}

\* A finger on the nav pad of a touch device.
InitPad == InitController /\ onMobile = TRUE

NextPad ==
    \/ \E id \in TouchIds, pos \in PadPoints :
          nTouchEvents < MaxTouchEvents /\ TouchStart(id, pos)
    \/ \E id \in TouchIds, pos \in PadPoints :
          nTouchEvents < MaxTouchEvents /\ id \in fingers /\ TouchMove(id, pos)
    \/ \E id \in TouchIds, pos \in PadPoints :
          nTouchEvents < MaxTouchEvents /\ id \in fingers /\ TouchEnd(id, pos)

SpecPad == InitPad /\ [][NextPad]_vars

\* Taps on a touch device: fingers go down, and leave the screen one at a
\* time or two in the same event.
InitTap == InitController /\ onMobile = TRUE

NextTap ==
    \/ \E id \in TouchIds, pos \in TouchPoints :
          nTouchEvents < MaxTouchSteps /\ TouchStart(id, pos)
    \/ \E id \in TouchIds, pos \in TouchPoints :
          nTouchEvents < MaxTouchSteps /\ id \in fingers /\ TouchEnd(id, pos)
    \/ \E id1 \in TouchIds, id2 \in TouchIds, pos1 \in TouchPoints,
          pos2 \in TouchPoints :
          /\ nTouchEvents < MaxTouchSteps /\ id1 \in fingers /\ id2 \in fingers
          /\ TouchEndTwo(id1, pos1, id2, pos2)

SpecTap == InitTap /\ [][NextTap]_vars

\* The touch device where an identifier may come back while it is tracked.
InitRetouch == InitController /\ onMobile = TRUE

NextRetouch ==
    \/ \E id \in TouchIds, pos \in TouchPoints :
          nTouchEvents < MaxTouchSteps /\ TouchStart(id, pos)
    \/ \E id \in TouchIds, pos \in TouchPoints :
          nTouchEvents < MaxTouchSteps /\ TouchStartTracked(id, pos)
    \/ \E id \in TouchIds, pos \in TouchPoints :
          nTouchEvents < MaxTouchSteps /\ TouchMove(id, pos)
    \/ \E id \in TouchIds, pos \in TouchPoints :
          nTouchEvents < MaxTouchSteps /\ TouchEnd(id, pos)
    \/ \E id \in TouchIds : nTouchEvents < MaxTouchSteps /\ TouchCancel(id)

SpecRetouch == InitRetouch /\ [][NextRetouch]_vars

\* The mouse of a desktop: buttons pressed and released over the container
\* or elsewhere, pointer movements, and updates that read the rotate input.
InitMouse == InitController /\ onMobile = FALSE

NextMouse ==
    \/ \E button \in MouseButtons : MouseDown(button)
    \/ \E button \in MouseButtons, pos \in MousePoints : MouseUp(button, pos)
    \/ \E button \in MouseButtons : MouseDownElsewhere(button)
    \/ \E button \in MouseButtons : MouseUpElsewhere(button)
    \/ \E movement \in MouseMovements, locked \in BOOLEAN :
          MouseMove(movement, locked)
    \/ Tick({<<0, 0, 0>>}, {playerProxy.rotation})

SpecMouse == InitMouse /\ [][NextMouse]_vars

\* The displacements of the capsule in one update (velocity times deltaTime,
\* then the push out of what it collides with): none, a step along x, a fall
\* that reaches the falling threshold in two updates from the spawn height,
\* and a fall that passes it in one.
Moves == {<<0, 0, 0>>, <<1, 0, 0>>, <<0, -14, 0>>, <<0, -30, 0>>}
\* The Euler rotations (x, y, z) a turn of the proxy ends at.
Orientations == {<<0, 0, 0>>, <<0, bornRotationY, 0>>, <<1, 2, 0>>}

\* The body on a touch device: the capsule moves and falls, a ROTATE touch
\* turns the proxy, a NAV touch walks it.
InitBody == InitController /\ onMobile = TRUE

NextBody ==
    \/ \E id \in TouchIds, pos \in TouchPoints :
          nTouchEvents < MaxTouchEvents /\ TouchStart(id, pos)
    \/ \E id \in TouchIds, pos \in TouchPoints :
          nTouchEvents < MaxTouchEvents /\ id \in fingers /\ TouchMove(id, pos)
    \/ Tick({move \in Moves :
                Abs(playerCollider.end[1] + move[1] - bornPos[1]) <= MaxCoord},
            Orientations)

SpecBody == InitBody /\ [][NextBody]_vars

\* The falling capsule: deltaTime is a tenth of a second.
FallFrame == [den |-> 10, keep |-> <<2, 3>>]

\* A capsule in free fall on the desktop, from construction: playerVelocity is
\* (0, 0, 0) and the capsule is at the spawn point, off the floor.
InitFall ==
    /\ onMobile = FALSE
    /\ InitFields(FALSE, [frame |-> FallFrame, ticks |-> 0,
                          player |-> [velocity |-> <<0, 0, 0>>,
                                      moved |-> <<0, 0, 0>>]])

\* Keys and updates; the capsule falls, at times as far as the threshold.
NextFall ==
    \/ \E code \in KeyCodes : KeyDown(code)
    \/ \E code \in KeyCodes : KeyUp(code)
    \/ TickFall({move \in Moves : move[1] = 0 /\ move[2] < 0}, {playerProxy.rotation})

SpecFall == InitFall /\ [][NextFall]_vars

\* ------------------------------------------------ the engine's properties

\* The last call was update.
WasUpdate == lastOp.op = "update"
\* The input object the last update was given: the guards true for it.
LastInput == lastOp.args[1]
\* The transitions registered for the state the last call began in.
EntriesFrom == MapGetSeq(transitions, lastOp.from)
\* Their places whose guard is true for the last input, in registration order.
TruePlaces == {i \in 1..Len(EntriesFrom) : EntriesFrom[i].checkFunc \in LastInput}
\* The last place of a non-empty set of places.
LastPlace(S) == CHOOSE i \in S : \A j \in S : j <= i

\* C1: an update in which no guard registered for the current state S returns
\* true (or S has no transitions) leaves the state at S and invokes no callback.
C1_NoTrueGuard ==
    (WasUpdate /\ TruePlaces = {}) => (currentState = lastOp.from /\ calls = << >>)

\* C1 witness: all guards of a started state with a transition to another state
\* and an exit callback were false.
C1_Witness ==
    /\ WasUpdate /\ lastOp.from \in StateNames
    /\ Len(EntriesFrom) >= 1 /\ TruePlaces = {}
    /\ \E i \in 1..Len(EntriesFrom) : EntriesFrom[i].target # lastOp.from
    /\ lastOp.from \in DOMAIN onExitFuncs

\* C2: an update evaluates every guard registered for the state it began in,
\* once each and in registration order, and ends in the target of the last
\* guard that returned true.
C2_AllGuardsLastWins ==
    (WasUpdate /\ Truthy(lastOp.from)) =>
        /\ evals = [i \in 1..Len(EntriesFrom) |-> EntriesFrom[i].checkFunc]
        /\ TruePlaces # {} => currentState = EntriesFrom[LastPlace(TruePlaces)].target

\* C2 witness: two guards were true, the first one's target differs from the
\* last one's, and the call ended in the last one's.
C2_Witness ==
    /\ WasUpdate /\ Cardinality(TruePlaces) = 2 /\ Len(evals) = 2
    /\ EntriesFrom[1].target # EntriesFrom[2].target
    /\ EntriesFrom[1].target # lastOp.from
    /\ currentState = EntriesFrom[2].target

\* The targets of the guards that were true, in registration order.
RECURSIVE FiredFrom(_)
FiredFrom(i) ==
    IF i > Len(EntriesFrom) THEN << >>
    ELSE IF i \in TruePlaces THEN <<EntriesFrom[i].target>> \o FiredFrom(i + 1)
    ELSE FiredFrom(i + 1)

\* The callbacks a change from state a to a different state b owes: a's exit
\* callback while the state is a, then b's enter callback, given a, in state b.
HooksOfChange(a, b) ==
    (IF a \in DOMAIN onExitFuncs
     THEN <<[kind |-> "exit", state |-> a, func |-> onExitFuncs[a],
             cur |-> a, arg |-> Unset]>>
     ELSE << >>)
    \o
    (IF b \in DOMAIN onEnterFuncs
     THEN <<[kind |-> "enter", state |-> b, func |-> onEnterFuncs[b],
             cur |-> b, arg |-> a]>>
     ELSE << >>)

\* The callbacks owed by firing the targets fired[k..] in turn from state a.
RECURSIVE HooksOfPath(_, _, _)
HooksOfPath(a, fired, k) ==
    IF k > Len(fired) THEN << >>
    ELSE IF fired[k] = a THEN HooksOfPath(a, fired, k + 1)
    ELSE HooksOfChange(a, fired[k]) \o HooksOfPath(fired[k], fired, k + 1)

\* C4: each transition from A to a different B invokes A's exit callback (if
\* any) while the state is A, then sets the state to B, then invokes B's enter
\* callback (if any) with A; once each, and nothing else is invoked.
C4_ExitSetEnter ==
    (WasUpdate /\ Truthy(lastOp.from)) =>
        calls = HooksOfPath(lastOp.from, FiredFrom(1), 1)

\* C4 witness: one transition to a different state ran both callbacks.
C4_Witness ==
    /\ WasUpdate /\ Len(calls) = 2 /\ currentState # lastOp.from
    /\ calls[1].kind = "exit" /\ calls[1].cur = lastOp.from
    /\ calls[2].kind = "enter" /\ calls[2].cur = currentState
    /\ calls[2].arg = lastOp.from

\* C5: a true guard whose target is the state current at that moment changes
\* nothing: the state stays and neither callback of that state is invoked.
C5_SelfTransitionNoOp ==
    (WasUpdate /\ Truthy(lastOp.from) /\ TruePlaces # {}
       /\ \A i \in TruePlaces : EntriesFrom[i].target = lastOp.from)
    => (currentState = lastOp.from /\ calls = << >>)

\* C5 witness: a guard to the current state was true while that state had both
\* callbacks registered.
C5_Witness ==
    /\ WasUpdate /\ TruePlaces # {}
    /\ \A i \in TruePlaces : EntriesFrom[i].target = lastOp.from
    /\ lastOp.from \in DOMAIN onEnterFuncs /\ lastOp.from \in DOMAIN onExitFuncs

\* C6: startup(s) sets the state to s and invokes no callback; before startup
\* the state is unset and update evaluates no guard.
C6_StartupSilent ==
    /\ lastOp.op = "startup" => (currentState = lastOp.args[1] /\ calls = << >>)
    /\ ~started => currentState = Unset
    /\ (WasUpdate /\ ~started) => (evals = << >> /\ calls = << >>)

\* C6 witness: startup into a state with an enter callback, from another state
\* that has an exit callback.
C6_Witness ==
    /\ lastOp.op = "startup" /\ lastOp.args[1] \in DOMAIN onEnterFuncs
    /\ lastOp.from \in DOMAIN onExitFuncs /\ lastOp.from # lastOp.args[1]

\* The guard addTransition was last given for source s and target t.
Newest(s, t) == registered[<<s, t>>][Len(registered[<<s, t>>])]

\* C7: after re-registering a source->target pair the source has exactly one
\* guard for that target, the newest, and update evaluates only that one.
C7_ReRegisterReplaces ==
    /\ \A s \in DOMAIN transitions :
          /\ Cardinality(Targets(transitions[s])) = Len(transitions[s])
          /\ \A i \in 1..Len(transitions[s]) :
                transitions[s][i].checkFunc = Newest(s, transitions[s][i].target)
    /\ \A p \in DOMAIN registered : p[2] \in Targets(MapGetSeq(transitions, p[1]))
    /\ (WasUpdate /\ Truthy(lastOp.from)) =>
          /\ Len(evals) = Len(EntriesFrom)
          /\ \A i \in 1..Len(evals) :
                evals[i] = Newest(lastOp.from, EntriesFrom[i].target)

\* C7 witness: a pair's guard was replaced by another one; in an update the old
\* guard would have returned true, the new one returned false, and the state
\* stayed.
C7_Witness ==
    /\ WasUpdate /\ currentState = lastOp.from
    /\ \E p \in DOMAIN registered :
          /\ p[1] = lastOp.from /\ p[2] # lastOp.from
          /\ Len(registered[p]) = 2
          /\ registered[p][1] \in LastInput
          /\ registered[p][2] \notin LastInput

\* C8 as claimed: after addState on an already registered state, that state's
\* callbacks are exactly the two the call supplied (none where it supplied none).
C8_AsClaimed ==
    [][(lastOp'.op = "addState" /\ lastOp'.args[1] \in states) =>
          /\ MapGet(onEnterFuncs', lastOp'.args[1]) = lastOp'.args[2]
          /\ MapGet(onExitFuncs', lastOp'.args[1]) = lastOp'.args[3]]_vars

\* C8: addState on an already registered state is accepted; each callback it
\* supplies replaces the state's earlier one, a callback it omits leaves the
\* earlier one registered, and the callbacks that fire are the registered ones.
C8_DuplicateOverwritesSupplied ==
    [][/\ lastOp'.op = "addState" =>
            LET s == lastOp'.args[1]
                e == lastOp'.args[2]
                x == lastOp'.args[3]
            IN  /\ s \in states'
                /\ onEnterFuncs' = IF e # NoFunc THEN MapSet(onEnterFuncs, s, e)
                                   ELSE onEnterFuncs
                /\ onExitFuncs' = IF x # NoFunc THEN MapSet(onExitFuncs, s, x)
                                  ELSE onExitFuncs
       /\ \A i \in 1..Len(calls') :
            calls'[i].func = MapGet(IF calls'[i].kind = "exit" THEN onExitFuncs'
                                    ELSE onEnterFuncs', calls'[i].state)]_vars

\* C8 witness: a second addState of a state replaced its enter callback by
\* another one and, omitting the exit callback, left that one registered.
C8_Witness ==
    /\ lastOp.op = "addState" /\ nRegs = 2
    /\ DOMAIN onEnterFuncs = {lastOp.args[1]} /\ DOMAIN onExitFuncs = {lastOp.args[1]}
    /\ lastOp.args[2] = "h2" /\ lastOp.args[3] = NoFunc
    /\ onEnterFuncs[lastOp.args[1]] = "h2" /\ onExitFuncs[lastOp.args[1]] = "h1"
    /\ DOMAIN transitions = {}

\* C9 as claimed: no callback is ever invoked for a state name that addState
\* has not registered.
C9_AsClaimed ==
    \A i \in 1..Len(calls) : calls[i].state \in states

\* C9: a name addState never registered is accepted by startup and as source or
\* target of a fired transition, and the state changes as for a registered
\* name; a callback is registered for such a name only by registerEnterFunc or
\* registerExitFunc, and only such a callback fires for it.
C9_UnregisteredPermitted ==
    [][/\ (lastOp'.op = "startup" /\ lastOp'.args[1] \notin states') =>
             (currentState' = lastOp'.args[1] /\ calls' = << >>)
       /\ (lastOp'.op = "update" /\ Truthy(currentState)) =>
             LET entries == MapGetSeq(transitions, currentState)
                 fired == {i \in 1..Len(entries) :
                             entries[i].checkFunc \in lastOp'.args[1]}
             IN  (fired # {} /\ (currentState \notin states
                                 \/ entries[LastPlace(fired)].target \notin states))
                 => currentState' = entries[LastPlace(fired)].target
       /\ \A s \in StateNames \ states' :
             /\ MapGet(onEnterFuncs', s) # MapGet(onEnterFuncs, s)
                   => lastOp'.op = "registerEnterFunc"
             /\ MapGet(onExitFuncs', s) # MapGet(onExitFuncs, s)
                   => lastOp'.op = "registerExitFunc"
       /\ \A i \in 1..Len(calls') :
             calls'[i].state \notin states' =>
                /\ calls'[i].kind = "enter" =>
                      calls'[i].func = MapGet(onEnterFuncs', calls'[i].state)
                /\ calls'[i].kind = "exit" =>
                      calls'[i].func = MapGet(onExitFuncs', calls'[i].state)]_vars

\* C9 witness: an update moved from one unregistered name to another one, and
\* the enter callback registerEnterFunc had set for the target was invoked.
C9_Witness ==
    /\ WasUpdate /\ lastOp.from \in StateNames \ states
    /\ currentState \in StateNames \ states /\ currentState # lastOp.from
    /\ Len(calls) = 1 /\ calls[1].kind = "enter" /\ calls[1].state = currentState

\* ------------------------------------------- the locomotion's properties

\* The input now: navigation is asked for, running is asked for, a jump is
\* asked for. The controller's update leaves the input object's keys and
\* touches alone, so after an update they read as they did when it began.
NavNonZero == getNavVector # <<0, 0>>
NavRunNoJump == NavNonZero /\ getRunFlag /\ ~getJumpFlag
\* The front task needs movement.
FrontTaskNeedsMove == Len(taskQueue) > 0 /\ taskQueue[1].needMove = "true"

\* C3 as the specification states it: one update that starts in 'idle' with
\* non-zero navigation input, a run request and no jump request passes through
\* 'walk' and ends in 'run'.
C3_AsClaimed ==
    (WasUpdate /\ lastOp.from = "idle" /\ NavRunNoJump) =>
        /\ currentState = "run"
        /\ trace = << <<"idle", "walk">>, <<"walk", "run">> >>

\* C3: firings within one update build on each other, but an update evaluates
\* only the guards registered for the state it began in. With the locomotion
\* table, an update that starts in 'idle' with non-zero navigation input, a run
\* request and no jump request ends in 'walk', and an update that starts in
\* 'walk' under that input ends in 'run'; an update that starts in 'idle' with
\* navigation input and a jump request passes through 'walk' and ends in 'jump'.
C3_ChainTakesOneUpdatePerStep ==
    /\ (WasUpdate /\ lastOp.from = "idle" /\ NavRunNoJump) =>
          (currentState = "walk" /\ trace = << <<"idle", "walk">> >>)
    /\ (WasUpdate /\ lastOp.from = "walk" /\ NavRunNoJump) =>
          (currentState = "run" /\ trace = << <<"walk", "run">> >>)
    /\ (WasUpdate /\ lastOp.from = "idle" /\ NavNonZero /\ getJumpFlag) =>
          /\ currentState = "jump"
          /\ trace = << <<"idle", "walk">>, <<"walk", "jump">> >>

\* C3 witness: an update began in 'idle' with navigation input, a run request
\* and no jump request, and ended in 'walk'.
C3_Witness ==
    /\ WasUpdate /\ lastOp.from = "idle" /\ NavRunNoJump
    /\ evals = <<"idle_walk", "idle_jump">>
    /\ currentState = "walk"

\* C10: in every state of the input object and the task queue, the idle->walk
\* guard is true iff the navigation vector is non-zero or the front task needs
\* movement, the walk->idle guard is true iff neither holds, and the two guards
\* are not both true.
C10_WalkIdleGuardsComplementary ==
    /\ guardIdleWalk <=> (NavNonZero \/ FrontTaskNeedsMove)
    /\ guardWalkIdle <=> ~(NavNonZero \/ FrontTaskNeedsMove)
    /\ ~(guardIdleWalk /\ guardWalkIdle)

\* C10 witness: with no navigation input and a front task that needs movement,
\* an update in 'idle' evaluated the idle->walk guard and moved to 'walk'; the
\* task is still at the front.
C10_Witness ==
    /\ WasUpdate /\ lastOp.from = "idle" /\ currentState = "walk"
    /\ ~NavNonZero /\ FrontTaskNeedsMove
    /\ guardIdleWalk /\ ~guardWalkIdle

\* C11: over any sequence of updates and key states, an update that starts off
\* the floor assigns no jump speed whatever the jump key says, and an update
\* that assigns it is followed by an update that starts on the floor and
\* assigns none (the landing) before the next one that assigns it: impulses
\* counts the assignments since the last landing.
C11_OneImpulsePerFloorContact ==
    /\ [](impulses <= 1)
    /\ [][(lastOp'.op = "update" /\ ~playerOnFloor) => ~tick'.impulse]_vars
    /\ [][(lastOp'.op = "update" /\ tick'.impulse) =>
              (getJumpFlag /\ impulses = 0 /\ impulses' = 1)]_vars

\* A jump request made in the air after an impulse, and refused.
C11_Witness ==
    /\ WasUpdate /\ getJumpFlag /\ ~tick.impulse
    /\ impulses = 1 /\ isPlayerJumping /\ ~playerOnFloor

\* C12: in every update that starts with a non-empty task queue the player's
\* input is ignored: the nav and rotate input do not turn the proxy, the nav
\* input adds nothing to the velocity and the jump input assigns no jump speed.
C12_AsClaimed ==
    [][(lastOp'.op = "update" /\ Len(taskQueue) > 0) =>
          /\ ~tick'.navTurn /\ ~tick'.rotateTurn
          /\ tick'.navVelocity = <<0, 0>>
          /\ ~tick'.impulse]_vars

\* An update with a task still queued after it, in which the nav input added
\* to the velocity.
C12_Witness ==
    /\ WasUpdate /\ Len(taskQueue) > 0
    /\ NavNonZero /\ tick.navVelocity # <<0, 0>>

\* ------------------------------------------------ the touch table's properties

TouchOps == {"touchstart", "touchmove", "touchend", "touchcancel"}
\* The last call was a touch handler; its changed touch's identifier.
WasTouch == lastOp.op \in TouchOps
LastTouchId == lastOp.args[1]
\* The tracked touches of a type.
TouchesOfType(touchType) ==
    {id \in DOMAIN activeTouches : activeTouches[id].touchType = touchType}
\* The input object's touch tables and timeouts.
touchTables == <<activeTouches, activeToucheTypes, switchModeTimer,
                 eventRepeatTimer, timers>>

\* C13: at every instant at most two touches are tracked, at most one of them
\* of type NAV and at most one of type ROTATE, and the type index names
\* exactly the tracked touches.
C13_AtMostOneTouchPerType ==
    /\ Cardinality(DOMAIN activeTouches) <= 2
    /\ \A touchType \in {"NAV", "ROTATE"} :
          /\ Cardinality(TouchesOfType(touchType)) <= 1
          /\ TouchesOfType(touchType) =
                IF touchType \in DOMAIN activeToucheTypes
                THEN {activeToucheTypes[touchType]} ELSE {}

\* A third touch started while a NAV and a ROTATE touch are tracked.
C13_Witness ==
    /\ lastOp.op = "touchstart" /\ Cardinality(fingers) = 3
    /\ LastTouchId \notin DOMAIN activeTouches
    /\ Cardinality(TouchesOfType("NAV")) = 1
    /\ Cardinality(TouchesOfType("ROTATE")) = 1

\* The identifier of the tracked NAV touch.
NavTouchId == activeToucheTypes["NAV"]

\* C14: while a NAV touch is tracked, a touch event of another identifier (a
\* second touch that starts in the NAV region, and its later moves, end or
\* cancel) leaves the tracked NAV touch, the type index's NAV entry and
\* getNavVector as they are, and the other touch is not tracked as NAV.
C14_SecondNavTouchIgnored ==
    [][(/\ HasActiveTouch("NAV")
        /\ lastOp'.op \in TouchOps
        /\ lastOp'.args[1] # NavTouchId) =>
          /\ "NAV" \in DOMAIN activeToucheTypes'
          /\ NavTouchId' = NavTouchId
          /\ activeTouches'[NavTouchId] = activeTouches[NavTouchId]
          /\ TouchesOfType("NAV")' = {NavTouchId}
          /\ getNavVector' = getNavVector]_vars

\* A second touch that started in the NAV region while a NAV touch steers, and
\* is not tracked.
C14_Witness ==
    /\ lastOp.op = "touchstart" /\ detectTouchType(lastOp.args[2]) = "NAV"
    /\ HasActiveTouch("NAV") /\ NavTouchId # LastTouchId
    /\ LastTouchId \notin DOMAIN activeTouches
    /\ getNavVector # <<0, 0>>

\* The touches on the screen that are not tracked: their start was rejected.
RejectedTouches == fingers \ DOMAIN activeTouches

\* C15: a touch-start that is rejected (the touch is not tracked after it) and
\* every later move, end or cancel of a touch whose start was rejected change
\* no table, no timer field and no pending timeout of the input object, and
\* dispatch no notification.
C15_RejectedTouchSilent ==
    [][(\/ /\ lastOp'.op = "touchstart"
           /\ lastOp'.args[1] \notin DOMAIN activeTouches'
        \/ /\ lastOp'.op \in {"touchmove", "touchend", "touchcancel"}
           /\ lastOp'.args[1] \in RejectedTouches) =>
          /\ UNCHANGED <<touchTables, activetKeys>>
          /\ events' = << >>]_vars

\* A touch whose start was rejected has moved to the pad's centre and stays on
\* the screen untracked, while a NAV touch is tracked.
C15_Witness ==
    /\ lastOp.op = "touchmove" /\ LastTouchId \in RejectedTouches
    /\ lastOp.args[2] = navTouchCenter
    /\ HasActiveTouch("NAV") /\ NavTouchId # LastTouchId
    /\ events = << >>

\* C16: a touch move, end or cancel whose identifier is not tracked (a touch
\* that is not on the screen, or one whose start was rejected) leaves the
\* tracked touches, the type index, the timer fields and the pending timeouts
\* as they are and dispatches no notification.
C16_UntrackedIdIgnored ==
    [][(/\ lastOp'.op \in {"touchmove", "touchend", "touchcancel"}
        /\ lastOp'.args[1] \notin DOMAIN activeTouches) =>
          /\ activeTouches' = activeTouches
          /\ activeToucheTypes' = activeToucheTypes
          /\ switchModeTimer' = switchModeTimer
          /\ eventRepeatTimer' = eventRepeatTimer
          /\ timers' = timers
          /\ events' = << >>]_vars

\* A touch move of an identifier that is not on the screen arrived beyond the
\* dead zone, while a NAV touch is tracked and both timeouts are pending.
C16_Witness ==
    /\ lastOp.op = "touchmove" /\ LastTouchId \notin fingers
    /\ DistanceSq(lastOp.args[2], navTouchCenter) > touchErrorRadius * touchErrorRadius
    /\ HasActiveTouch("NAV")
    /\ switchModeTimer \in DOMAIN timers /\ eventRepeatTimer \in DOMAIN timers
    /\ events = << >>

\* The pending timeouts of a kind.
PendingTimers(kind) == {id \in DOMAIN timers : timers[id].kind = kind}
\* Within the dead zone around the pad's centre.
InDeadZone(pos) ==
    DistanceSq(pos, navTouchCenter) <= touchErrorRadius * touchErrorRadius
\* The last handler dispatched the mode-switch notification.
SwitchSignalSent ==
    \E i \in 1..Len(events) : events[i].type = "switchControllerMode"

\* C17: the mode-switch notification is dispatched only by the expiry of a
\* pending long-press timeout; a long-press timeout becomes pending only by the
\* start of a NAV touch within the dead zone, and it stays pending only while
\* that touch is tracked and has not left the dead zone: a move of that touch
\* beyond the dead zone, its end or its cancel leaves no long-press timeout
\* pending.
C17_SwitchSignalOnlyByLongPress ==
    /\ [](\A id \in PendingTimers("switchMode") :
             /\ HasActiveTouch("NAV") /\ NavTouchId = timers[id].touch
             /\ InDeadZone(ActiveTouchOf("NAV").startPos)
             /\ InDeadZone(ActiveTouchOf("NAV").currPos))
    /\ [][SwitchSignalSent' =>
             /\ lastOp'.op = "switchModeTimer"
             /\ lastOp'.args[1] \in PendingTimers("switchMode")
             /\ lastOp'.args[1] \notin DOMAIN timers']_vars
    /\ [][\A id \in PendingTimers("switchMode")' :
             \/ /\ lastOp'.op = "touchstart"
                /\ lastOp'.args[1] = timers'[id].touch
                /\ InDeadZone(lastOp'.args[2])
                /\ detectTouchType(lastOp'.args[2]) = "NAV"
             \/ /\ id \in PendingTimers("switchMode")
                /\ timers'[id] = timers[id]
                /\ ~(/\ lastOp'.op \in {"touchend", "touchcancel"}
                     /\ lastOp'.args[1] = timers[id].touch)
                /\ ~(/\ lastOp'.op = "touchmove"
                     /\ lastOp'.args[1] = timers[id].touch
                     /\ ~InDeadZone(lastOp'.args[2]))]_vars

\* The long-press timeout of a NAV touch that started at the edge of the dead
\* zone and moved within it has expired and the notification was dispatched.
C17_Witness ==
    /\ lastOp.op = "switchModeTimer" /\ SwitchSignalSent
    /\ HasActiveTouch("NAV")
    /\ ActiveTouchOf("NAV").startPos # ActiveTouchOf("NAV").currPos
    /\ PendingTimers("switchMode") = {}

\* C18: at every instant at most one long-press timeout and at most one
\* redelivery timeout is pending, and a pending one is the one its field names
\* (every arming clears the timeout the field named before).
C18_OneTimerPerPurpose ==
    /\ Cardinality(PendingTimers("switchMode")) <= 1
    /\ Cardinality(PendingTimers("repeat")) <= 1
    /\ PendingTimers("switchMode") \subseteq {switchModeTimer}
    /\ PendingTimers("repeat") \subseteq {eventRepeatTimer}

\* A move of the NAV touch has armed the redelivery timeout again while one
\* was pending, with the long-press timeout pending as well.
C18_Witness ==
    /\ lastOp.op = "touchmove" /\ HasActiveTouch("NAV") /\ LastTouchId = NavTouchId
    /\ Len(events) = 1
    /\ Cardinality(PendingTimers("repeat")) = 1
    /\ Cardinality(PendingTimers("switchMode")) = 1

\* ------------------------------------------------------ the body's properties

\* C19: an update in which the proxy's height, after updatePlayer, is at or
\* below the falling threshold ends with the capsule's start and end at the
\* spawn geometry and the proxy at the spawn position with rotation
\* (0, bornRotationY, 0), whatever the capsule's displacement and the proxy's
\* rotation in that update were; every other update leaves the proxy above the
\* threshold.
C19_FallRespawnsAtSpawn ==
    WasUpdate =>
        /\ tick.reborn => (playerCollider = bornCollider /\ playerProxy = bornProxy)
        /\ playerProxy.position = playerCollider.end
        /\ playerProxy.position[2] > fallingThreshold

\* An update in which a ROTATE touch turned the proxy and the capsule fell to
\* the threshold: it ends at the spawn point.
C19_Witness ==
    /\ WasUpdate /\ tick.reborn /\ tick.rotateTurn
    /\ playerCollider = bornCollider /\ playerProxy = bornProxy

\* ----------------------------------------------- the control mode's properties

\* C20: after any sequence of digit keys, long-press mode switches and actor
\* load completions, the control mode is first person, chase or observer.
C20_AsClaimed == controlMode \in {CTRL_MODE_FPS, CTRL_MODE_CHASE, CTRL_MODE_OB}

\* With an actor loaded, a digit key has set a control mode that is none of
\* the three.
C20_Witness ==
    /\ lastOp.op = "keydown" /\ playerActor = "visible"
    /\ controlMode > CTRL_MODE_OB

\* The last call was a keydown whose listener asked for chase or observer.
AskedNonFps ==
    /\ lastOp.op = "keydown" /\ Len(lastOp.args) = 1
    /\ lastOp.args[1] \in {CTRL_MODE_CHASE, CTRL_MODE_OB}

\* C21: with no actor loaded and no loader registered, a request for chase or
\* observer leaves the control mode and every other field of the controller
\* and of its input object as they were.
C21_NoActorNoLoaderNoEffect ==
    [][(playerActor = "undefined" /\ ~playerActorLoader /\ AskedNonFps')
       => UNCHANGED <<fsmVars, deviceVars, ctrlVars>>]_vars

\* Chase or observer has been asked for with no actor and no loader.
C21_Witness ==
    /\ AskedNonFps /\ playerActor = "undefined" /\ ~playerActorLoader
    /\ controlMode = CTRL_MODE_FPS /\ pendingLoads = << >>

\* The last call asked switchControlMode for a mode: a digit key, or the
\* long press's notification.
WasModeRequest ==
    \/ lastOp.op = "keydown" /\ Len(lastOp.args) = 1
    \/ lastOp.op = "switchModeTimer"

\* C22: while no actor is loaded, a request for a mode other than first
\* person does not change the control mode; the mode changes only when the
\* loader calls the callback of a request, and then to the mode that request
\* asked for.
C22_ModeSetByReadyCallback ==
    /\ [](playerActor = "undefined" => controlMode = CTRL_MODE_FPS)
    /\ [][(playerActor = "undefined" /\ WasModeRequest')
          => /\ controlMode' = controlMode /\ playerActor' = playerActor
             /\ pendingLoads' \in {pendingLoads}
                    \cup {Append(pendingLoads, m) : m \in 1..9}]_vars
    /\ [][(playerActor = "undefined" /\ controlMode' # controlMode)
          => /\ lastOp'.op = "actorSaver"
             /\ \E i \in 1..Len(pendingLoads) :
                   controlMode' = pendingLoads[i]]_vars

\* The loader has called the callback of a request for chase made while no
\* actor was loaded: the mode is chase and the actor is shown.
C22_Witness ==
    /\ lastOp.op = "actorSaver" /\ lastOp.args = <<CTRL_MODE_CHASE>>
    /\ controlMode = CTRL_MODE_CHASE /\ playerActor = "visible"

\* C23: between the first request for a mode other than first person made
\* with no actor loaded and the loader's callback, the loader is not called
\* again, so it never holds more than one callback.
C23_AsClaimed == Len(pendingLoads) <= 1

\* With no actor loaded, a second request has called the loader again: it
\* holds two callbacks, neither called yet.
C23_Witness ==
    /\ WasModeRequest /\ playerActor = "undefined" /\ playerActorLoader
    /\ Len(pendingLoads) = 2

\* ------------------------------------------------------ the mouse's properties

\* The last handler dispatched a hit notification.
HitSent == \E i \in 1..Len(events) : events[i].type = "hitOnView"

\* C24: on a desktop, a mouseup sends the hit notification exactly when the
\* released button is the left one and the user holds no other button.
C24_AsClaimed ==
    [][lastOp'.op = "mouseup"
       => (HitSent' <=> /\ lastOp'.args[1] = MOUSE_LEFT_KEY
                        /\ mouseHeld \ {MOUSE_LEFT_KEY} = {})]_vars

\* A left click with no other button held has sent no hit: the record still
\* holds the right button, whose release the container never saw.
C24_Witness ==
    /\ lastOp.op = "mouseup" /\ lastOp.args[1] = MOUSE_LEFT_KEY
    /\ mouseHeld = {} /\ activeMouseKeys = {MOUSE_RIGHT_KEY}
    /\ ~HitSent

\* ------------------------------------------------------- the taps' properties

\* The hit notifications the last handler dispatched.
HitsSent == {i \in 1..Len(events) : events[i].type = "hitOnView"}

\* The touches a touchend call reported as ended: <<identifier, position>>.
EndedTouches(args) == {<<args[2 * k - 1], args[2 * k]>> : k \in 1..(Len(args) \div 2)}

\* The touch ended is tracked and ended within touchErrorRadius of its own
\* start on both axes.
EndedAsTap(touch) ==
    /\ touch[1] \in DOMAIN activeTouches
    /\ Abs(touch[2][1] - activeTouches[touch[1]].startPos[1]) <= touchErrorRadius
    /\ Abs(touch[2][2] - activeTouches[touch[1]].startPos[2]) <= touchErrorRadius

\* C25: a touchend sends one hit for each tracked touch it reports as ended
\* within touchErrorRadius of that touch's own start, and no other hit, also
\* when two touches end in the same event.
C25_AsClaimed ==
    [][lastOp'.op = "touchend"
       => Cardinality(HitsSent') =
          Cardinality({touch \in EndedTouches(lastOp'.args) : EndedAsTap(touch)})]_vars

\* The third touch event ends two touches at once. Touch 1, reported second,
\* was the first on the screen, so it is tracked; no nav notification was
\* sent, so it is a ROTATE touch, which starts at <<150, 300>>, and it ended
\* there: a tap. No hit was sent.
C25_Witness ==
    /\ lastOp.op = "touchend" /\ Len(lastOp.args) = 4 /\ nTouchEvents = 3
    /\ lastOp.args[3] = 1 /\ lastOp.args[4] = <<150, 300>>
    /\ \A i \in 1..Len(events) : events[i].type # "navTouchUp"
    /\ HitsSent = {}

\* C26: on a desktop, getRotateVector clears the pointer-delta accumulator:
\* after an update that read the rotate input mouseMoveVector is zero, nothing
\* but a mousemove makes it non-zero again, and an update that follows another
\* with no event in between reads the zero vector.
C26_QueryClearsAccumulator ==
    /\ [][(~onMobile /\ taskQueue = << >> /\ lastOp'.op = "update")
          => mouseMoveVector' = <<0, 0>>]_vars
    /\ [][(mouseMoveVector = <<0, 0>> /\ lastOp'.op # "mousemove")
          => mouseMoveVector' = <<0, 0>>]_vars
    /\ [][(~onMobile /\ taskQueue = << >> /\ lastOp.op = "update"
           /\ lastOp'.op = "update")
          => tick'.rotateVector = <<0, 0>>]_vars

\* An update has read a non-zero rotate input from the mouse and left the
\* accumulator cleared.
C26_Witness ==
    /\ ~onMobile /\ lastOp.op = "update"
    /\ tick.rotateVector # <<0, 0>> /\ mouseMoveVector = <<0, 0>>

\* C27: on a desktop, the rotate input an update reads is, before scaling,
\* the total of the mouse movements accepted since the last query.
C27_AsClaimed ==
    [][(~onMobile /\ taskQueue = << >> /\ lastOp'.op = "update")
       => tick'.rotateVector = movedSinceQuery]_vars

\* Two mouse movements were accepted since the last query, (1, 0) and then
\* (0, 1): the accumulator holds the second, not their total.
C27_Witness ==
    /\ ~onMobile /\ lastOp.op = "mousemove" /\ lastOp.args = <<(<<0, 1>>)>>
    /\ movedSinceQuery = <<1, 1>> /\ mouseMoveVector = <<0, 1>>

\* ---------------------------------------------------- the nav pad's properties

\* The displacement of the NAV touch from the pad centre, when there is one.
NavDisplacement ==
    <<ActiveTouchOf("NAV").currPos[1] - navTouchCenter[1],
      ActiveTouchOf("NAV").currPos[2] - navTouchCenter[2]>>

\* A vector of unit length, to the resolution of the hundredths its
\* components are kept in.
IsUnitLength(v) == length(v) \in (Unit - 2)..Unit

\* C28: on a touch device the navigation vector is zero without a NAV touch;
\* with one, an axis displaced by exactly touchErrorRadius contributes zero,
\* and an axis displaced by more gives a non-zero component and a vector of
\* unit length.
C28_NavDeadZone ==
    onMobile =>
       IF ~HasActiveTouch("NAV") THEN getNavVector = <<0, 0>>
       ELSE \A axis \in 1..2 :
               /\ Abs(NavDisplacement[axis]) = touchErrorRadius
                     => getNavVector[axis] = 0
               /\ Abs(NavDisplacement[axis]) > touchErrorRadius
                     => getNavVector[axis] # 0 /\ IsUnitLength(getNavVector)

\* The NAV touch is at the dead zone's edge on x and beyond it on y: the
\* navigation vector points straight up.
C28_Witness ==
    /\ onMobile /\ HasActiveTouch("NAV") /\ lastOp.op = "touchmove"
    /\ NavDisplacement = <<touchErrorRadius, -(touchErrorRadius + 1)>>
    /\ getNavVector = <<0, Unit>>

\* ------------------------------------------------- the velocity's properties

\* Twice a vector.
Twice(v) == <<2 * v[1], 2 * v[2], 2 * v[3]>>

\* C29 as stated: with the same nav input, the same initial velocity and
\* orientation and the player on the floor throughout, the distance moved
\* over N updates in 'run' is exactly twice the distance moved in 'walk'.
C29_AsClaimed ==
    (playerOnFloor /\ motion.ticks > 0)
        => motion.run.moved = Twice(motion.walk.moved)

\* C29 amended: with the same nav input and orientation, the player on the
\* floor throughout and an initial velocity of zero, the distance moved over
\* N updates in 'run' is exactly twice the distance moved in 'walk'.
C29_RunTwiceWalkFromRest ==
    (playerOnFloor /\ motion.ticks > 0 /\ motion.start = <<0, 0, 0>>)
        => motion.run.moved = Twice(motion.walk.moved)

\* From rest, with a nav input held for MaxTicks updates on the floor, the
\* player has moved, and in 'run' twice as far as in 'walk'.
C29_Witness ==
    /\ playerOnFloor /\ motion.ticks = MaxTicks /\ motion.start = <<0, 0, 0>>
    /\ motion.nav # <<0, 0>> /\ motion.walk.moved # <<0, 0, 0>>
    /\ motion.run.moved = Twice(motion.walk.moved)

\* The square of a velocity's magnitude.
NormSq(v) == v[1] * v[1] + v[2] * v[2] + v[3] * v[3]

\* The followed velocity before and after a step, the first on the scale of
\* the second.
VelocityBefore ==
    LET base == dampingOf(motion.frame)[2]
    IN  <<motion.walk.velocity[1] * base, motion.walk.velocity[2] * base,
          motion.walk.velocity[3] * base>>
VelocityAfter == motion.walk.velocity'

\* An update of the followed velocity with no nav input, on the floor.
DampedStep ==
    /\ motion.nav = <<0, 0>> /\ playerOnFloor
    /\ lastOp'.op = "updatePlayer" /\ motion'.ticks = motion.ticks + 1

\* C30 as stated: with no input and the player on the floor, every update
\* strictly decreases the velocity's magnitude, and no component changes sign.
C30_AsClaimed ==
    [][DampedStep
       => /\ NormSq(VelocityAfter) < NormSq(VelocityBefore)
          /\ NormSq(VelocityAfter) >= 0
          /\ \A i \in 1..3 : Sign(VelocityAfter[i]) * Sign(VelocityBefore[i]) >= 0]_vars

\* C30 amended: with no input and the player on the floor, an update strictly
\* decreases the magnitude of a velocity that is not zero, without reaching
\* zero, and keeps every component's sign; a velocity of zero stays zero.
C30_DampingShrinksVelocity ==
    [][DampedStep
       => IF VelocityBefore = <<0, 0, 0>> THEN VelocityAfter = <<0, 0, 0>>
          ELSE /\ NormSq(VelocityAfter) < NormSq(VelocityBefore)
               /\ NormSq(VelocityAfter) > 0
               /\ \A i \in 1..3 : Sign(VelocityAfter[i]) = Sign(VelocityBefore[i])]_vars

\* A velocity that was not zero has been damped MaxTicks times with no input
\* on the floor: it is not zero and its components kept their signs.
C30_Witness ==
    /\ playerOnFloor /\ motion.nav = <<0, 0>> /\ motion.ticks = MaxTicks
    /\ motion.start = <<-1, 2, 4>>
    /\ \A i \in 1..3 : Sign(motion.walk.velocity[i]) = Sign(motion.start[i])

\* ------------------------------------------------ the jump state's properties

\* C31: an update that begins in 'jump' leaves the state machine in 'jump' when
\* the jump latch is set as it begins, whatever the floor contact and the
\* input are, and moves it to 'run' when the latch is clear.
C31_JumpHeldByLatch ==
    [][(lastOp'.op = "update" /\ currentState = "jump")
       => currentState' = IF isPlayerJumping THEN "jump" ELSE "run"]_vars

\* An update that began in 'jump' evaluated the latch's guard and moved to
\* 'run'.
C31_Witness ==
    /\ WasUpdate /\ lastOp.from = "jump" /\ currentState = "run"
    /\ evals = <<"jump_run">> /\ trace = << <<"jump", "run">> >>

\* C32 as stated: in every update in which the jump impulse is applied, the
\* state machine is in 'jump' after that update's step.
C32_AsClaimed ==
    [][(lastOp'.op = "update" /\ tick'.impulse) => currentState' = "jump"]_vars

\* C32 amended: in every update in which the jump impulse is applied, the
\* state machine is in 'jump' after that update's step when the update began
\* in 'idle', 'walk' or 'run', and in 'run' when it began in 'jump' (with the
\* latch clear); the following update moves it to 'jump'.
C32_ImpulseEntersJump ==
    /\ [][(lastOp'.op = "update" /\ tick'.impulse)
          => currentState' = IF currentState = "jump" THEN "run" ELSE "jump"]_vars
    /\ [][(lastOp.op = "update" /\ tick.impulse /\ currentState = "run"
           /\ lastOp.from = "jump" /\ lastOp'.op = "update" /\ getJumpFlag)
          => currentState' = "jump"]_vars

\* The jump impulse was applied in an update that began in 'jump' and ended
\* in 'run'.
C32_Witness ==
    /\ WasUpdate /\ tick.impulse /\ lastOp.from = "jump" /\ currentState = "run"
    /\ isPlayerJumping

\* ------------------------------------------------ the respawn and the velocity

\* The velocity followed, and what updatePlayer's integration makes of it in
\* the update that is about to run.
FallVelocity == motion.player.velocity
FallIntegrated ==
    updateVelocity(FallVelocity, motion.ticks, update(LocoInput).currentState,
                   getNavVector, motion.frame)

\* C33: an update that respawns the capsule ends with the velocity that its
\* integration computed (the collision step of a free fall changes nothing),
\* and the update after a respawn integrates from that velocity, not from zero.
C33_RespawnKeepsVelocity ==
    /\ [][(lastOp'.op = "update" /\ tick'.reborn)
          => FallVelocity' = FallIntegrated]_vars
    /\ [][(lastOp.op = "update" /\ tick.reborn /\ lastOp'.op = "update")
          => (FallVelocity # <<0, 0, 0>> /\ FallVelocity' = FallIntegrated)]_vars

\* The update after a respawn: the first update fell past the threshold and
\* respawned the capsule, the second fell from the spawn point; the velocity
\* is that of two integrations from rest.
C33_Witness ==
    /\ WasUpdate /\ motion.ticks = 2 /\ ~tick.reborn
    /\ playerCollider.end[2] = viewHeight - 14
    /\ getNavVector = <<0, 0>>
    /\ FallVelocity[2] = (0 - gravity * Unit) * 29 * 29 - gravity * Unit * 30 * 29

\* --------------------------------------------------- the redelivery's payload

\* The NAV notifications among evs, in the order sent, and the latest of them.
NavNotifications(evs) ==
    SelectSeq(evs, LAMBDA e : e.type \in {"navTouchDown", "navTouchUp"})
LatestNav(evs) == NavNotifications(evs)[Len(NavNotifications(evs))]

\* What the pending redelivery timeouts would send when they expire.
PendingRedeliveries ==
    {[type |-> timers[id].eventType, detail |-> timers[id].detail] :
        id \in {t \in DOMAIN timers : timers[t].kind = "repeat"}}

\* C34: a redelivery sends one notification, the one that was pending, with
\* its kind and position; whenever NAV notifications are sent, redelivery
\* included, the latest of them is the only one pending afterwards; and a step
\* that sends none leaves what is pending as it was. So what a redelivery
\* repeats is always the most recent NAV notification, never an older one.
C34_RedeliveryRepeatsLatest ==
    /\ [][lastOp'.op = "eventRepeatTimer"
          => (Len(events') = 1 /\ PendingRedeliveries = {events'[1]})]_vars
    /\ [][NavNotifications(events') # << >>
          => PendingRedeliveries' = {LatestNav(events')}]_vars
    /\ [][NavNotifications(events') = << >>
          => PendingRedeliveries' = PendingRedeliveries]_vars

\* A NAV touch went down at one point and moved to another; the redelivery
\* repeats the move's notification, not the older one of the touch's start.
C34_Witness ==
    /\ lastOp.op = "eventRepeatTimer"
    /\ \E id \in DOMAIN activeTouches :
          /\ activeTouches[id].touchType = "NAV"
          /\ activeTouches[id].startPos # activeTouches[id].currPos
          /\ events = <<[type |-> "navTouchDown", detail |-> activeTouches[id].currPos]>>

\* -------------------------------------------- the type index and the table

\* C35 as stated: the type index and the touch table agree. Every entry of
\* activeToucheTypes names a touch in activeTouches that is of the entry's
\* type, and every touch in activeTouches is the one the entry of its type
\* names, also after a touchstart whose identifier is tracked.
C35_AsClaimed ==
    /\ \A type \in DOMAIN activeToucheTypes :
          /\ activeToucheTypes[type] \in DOMAIN activeTouches
          /\ activeTouches[activeToucheTypes[type]].touchType = type
    /\ \A id \in DOMAIN activeTouches :
          /\ activeTouches[id].touchType \in DOMAIN activeToucheTypes
          /\ activeToucheTypes[activeTouches[id].touchType] = id

\* A touchstart of a tracked identifier at a point of the other type has
\* replaced the touch in the table: the index has two entries, both name that
\* identifier, and the only touch tracked is of one type.
C35_Witness ==
    /\ lastOp.op = "touchstart"
    /\ DOMAIN activeToucheTypes = {"NAV", "ROTATE"}
    /\ activeToucheTypes["NAV"] = activeToucheTypes["ROTATE"]
    /\ DOMAIN activeTouches = {activeToucheTypes["NAV"]}

\* ------------------------------------------------- the late ready callback

\* The callbacks the loader holds, without the i-th.
WithoutLoad(loads, i) ==
    [k \in 1..(Len(loads) - 1) |-> IF k < i THEN loads[k] ELSE loads[k + 1]]

\* The mode a request asks for: the digit key's, or the next of the three
\* for a long press.
RequestedMode ==
    IF lastOp'.op = "keydown" THEN lastOp'.args[1] ELSE (controlMode + 1) % 3

\* C36: a request that calls the loader hands it a callback for the mode
\* requested; when the loader calls one of the callbacks it holds, the control
\* mode becomes that callback's mode and the actor is shown, whatever the mode
\* was before (also first person, set by a switch made after the request), and
\* the other callbacks stay with the loader.
C36_LateCallbackSetsRequestedMode ==
    /\ [][(WasModeRequest' /\ pendingLoads' # pendingLoads)
          => pendingLoads' = Append(pendingLoads, RequestedMode)]_vars
    /\ [][lastOp'.op = "actorSaver"
          => \E i \in 1..Len(pendingLoads) :
                /\ controlMode' = pendingLoads[i]
                /\ playerActor' = "visible"
                /\ pendingLoads' = WithoutLoad(pendingLoads, i)]_vars
    /\ [][(lastOp'.op = "actorSaver" /\ playerActor = "hidden")
          => (controlMode = CTRL_MODE_FPS /\ controlMode' # CTRL_MODE_FPS)]_vars

\* The loader has called the callback of the later of two requests before the
\* other: the mode is the observer mode that request asked for, and the
\* callback of the request for chase is still with the loader.
C36_Witness ==
    /\ lastOp.op = "actorSaver" /\ lastOp.args = <<CTRL_MODE_OB>>
    /\ controlMode = CTRL_MODE_OB /\ playerActor = "visible"
    /\ pendingLoads = <<CTRL_MODE_CHASE>>

\* C37: once an actor is stored, it is visible exactly when the control mode
\* is not first person, after any digit keys, long presses and calls of the
\* loader's callbacks in any order.
C37_ActorVisibleIffNotFps ==
    playerActor # "undefined"
        => (playerActor = "visible" <=> controlMode # CTRL_MODE_FPS)

\* With an actor stored and another callback still with the loader, a long
\* press has switched from observer mode to first person: the actor is
\* hidden.
C37_Witness ==
    /\ lastOp.op = "switchModeTimer" /\ controlMode = CTRL_MODE_FPS
    /\ playerActor = "hidden" /\ pendingLoads # << >>

\* ------------------------------------------------------ the way back to idle

\* No nav input, no run flag, no jump flag and no task.
NoInput ==
    /\ length(getNavVector) = 0 /\ ~getRunFlag /\ ~getJumpFlag
    /\ taskQueue = << >>

\* C38: with no input and no task, an update that begins in 'jump' with the
\* latch clear ends in 'run', one that begins in 'run' ends in 'walk' and one
\* that begins in 'walk' ends in 'idle', each by a single transition; so three
\* updates lead from 'jump' to 'idle' through 'run' and 'walk', and no fewer.
C38_JumpToIdleInThreeUpdates ==
    /\ [][(lastOp'.op = "update" /\ NoInput /\ currentState = "jump"
           /\ ~isPlayerJumping)
          => (currentState' = "run" /\ trace' = << <<"jump", "run">> >>)]_vars
    /\ [][(lastOp'.op = "update" /\ NoInput /\ currentState = "run")
          => (currentState' = "walk" /\ trace' = << <<"run", "walk">> >>)]_vars
    /\ [][(lastOp'.op = "update" /\ NoInput /\ currentState = "walk")
          => (currentState' = "idle" /\ trace' = << <<"walk", "idle">> >>)]_vars

\* On a desktop with no key down and no task, an update that began in 'walk'
\* has ended in 'idle' by the one transition walk -> idle.
C38_Witness ==
    /\ WasUpdate /\ ~onMobile /\ activetKeys = {} /\ taskQueue = << >>
    /\ lastOp.from = "walk" /\ currentState = "idle"
    /\ trace = << <<"walk", "idle">> >> /\ ~isPlayerJumping

\* ------------------------------------------------ the touch's rotate vector

\* C39: on a touch device an update, which queries getRotateVector when there
\* is no task, leaves the touch table and the type index as they were, so the
\* next query returns the same vector; and of two updates in a row that both
\* query it, the second reads the non-zero movement of the ROTATE touch that
\* the first read.
C39_TouchQueryKeepsDelta ==
    /\ [][(onMobile /\ lastOp'.op = "update")
          => /\ activeTouches' = activeTouches
             /\ activeToucheTypes' = activeToucheTypes
             /\ getRotateVector' = getRotateVector]_vars
    /\ [][(onMobile /\ lastOp.op = "update" /\ tick.rotateVector # <<0, 0>>
           /\ lastOp'.op = "update" /\ taskQueue = << >>)
          => tick'.rotateVector = tick.rotateVector]_vars

\* An update has read a non-zero movement of the ROTATE touch, and the touch
\* still shows that movement to the next query.
C39_Witness ==
    /\ WasUpdate /\ onMobile /\ taskQueue = << >>
    /\ HasActiveTouch("ROTATE")
    /\ tick.rotateVector # <<0, 0>> /\ getRotateVector = tick.rotateVector

\* ------------------------------------------- the redelivery that never stops

\* The touch-up notification, which carries no position.
NavTouchUp == [type |-> "navTouchUp", detail |-> << >>]

\* C40: a step that sends a NAV notification leaves a redelivery timeout
\* pending; while one is pending no step, an expiry included, ends with none
\* pending; and the end or the cancel of the NAV touch leaves the touch-up
\* notification pending. So from the first NAV notification on a redelivery
\* timeout is pending at every instant.
C40_RedeliveryAlwaysPending ==
    /\ [][NavNotifications(events') # << >> => PendingTimers("repeat")' # {}]_vars
    /\ [][PendingTimers("repeat") # {} => PendingTimers("repeat")' # {}]_vars
    /\ [][(lastOp'.op \in {"touchend", "touchcancel"} /\ HasActiveTouch("NAV")
           /\ lastOp'.args[1] = activeToucheTypes["NAV"])
          => PendingRedeliveries' = {NavTouchUp}]_vars

\* The NAV touch has ended and the redelivery timeout has since expired: it
\* has sent the touch-up notification again and is pending again, with no touch
\* on the screen.
C40_Witness ==
    /\ lastOp.op = "eventRepeatTimer" /\ events = <<NavTouchUp>>
    /\ DOMAIN activeTouches = {} /\ fingers = {}
    /\ PendingRedeliveries = {NavTouchUp}

============================================================================
